---- MODULE Spec2Model ----
(***************************************************************************)
(* Request authorization, session token and cross-origin pipeline of the   *)
(* admin-portfolio service: next.config headers, middleware.ts, lib/auth,  *)
(* lib/cors and the route handlers behind them, with lib/validators and    *)
(* the database rows the handlers read and write.                          *)
(*                                                                         *)
(* A URL path is a sequence of string pieces whose concatenation is the    *)
(* path ("/api/adminx" is <<"/","api","/","admin","x">>), so that          *)
(* String.startsWith is the prefix order on sequences.  A header value is  *)
(* a sequence of the parts that Array.join(',') glued together.  Time is   *)
(* Date.now() in milliseconds; the JWT libraries truncate it to seconds.   *)
(***************************************************************************)
EXTENDS Integers, Sequences, FiniteSets, TLC

VARIABLES
    nodeEnv,            \* process.env.NODE_ENV
    nextConfigHeaders,  \* TRUE when the deployed next.config defines headers()
    jwtSecretEnv,       \* process.env.JWT_SECRET
    clock,              \* Date.now(), milliseconds
    ticks,              \* number of clock advances so far
    issued,             \* every token generateToken has returned
    cookie,             \* the browser's auth-token cookie
    req,                \* the last request served
    resp,               \* the response it got
    db,                 \* the rows the database holds, per table
    op,                 \* what the handler of the last request did
    inflight            \* the handler invocations running side by side

vars ==
    <<nodeEnv, nextConfigHeaders, jwtSecretEnv, clock, ticks, issued, cookie, req, resp,
      db, op, inflight>>

-----------------------------------------------------------------------------
(* Bounds *)

MaxTicks == 2
MaxTokens == 2
MaxRows == 1
MaxInflight == 2

-----------------------------------------------------------------------------
(* Strings and paths *)

NoValue == "<absent>"

StartsWith(s, p) == Len(p) <= Len(s) /\ SubSeq(s, 1, Len(p)) = p

PathDashboard == <<"/", "dashboard">>
PathDashboardSub == <<"/", "dashboard", "/", "projects">>
PathDashboardSibling == <<"/", "dashboard", "-old">>
PathLogin == <<"/", "login">>
PathApi == <<"/", "api">>
PathApiSlash == <<"/", "api", "/">>
PathApiAdmin == <<"/", "api", "/", "admin">>
PathAdminProjects == <<"/", "api", "/", "admin", "/", "projects">>
PathAdminContact == <<"/", "api", "/", "admin", "/", "contact">>
PathAdminSibling == <<"/", "api", "/", "admin", "x">>
PathProjects == <<"/", "api", "/", "projects">>
PathContact == <<"/", "api", "/", "contact">>

Paths ==
    { PathDashboard, PathDashboardSub, PathDashboardSibling,
      PathAdminProjects, PathAdminContact, PathAdminSibling,
      PathProjects, PathContact }

Methods == { "GET", "POST", "OPTIONS" }

\* '/dashboard/:path*' and '/api/:path*': the prefix itself, or the prefix
\* followed by "/" and more.
MatchesPattern(path, prefix) ==
    /\ StartsWith(path, prefix)
    /\ \/ Len(path) = Len(prefix)
       \/ path[Len(prefix) + 1] = "/"

MatcherMatches(path) ==
    \/ MatchesPattern(path, PathDashboard)
    \/ MatchesPattern(path, PathApi)

-----------------------------------------------------------------------------
(* Session tokens *)

\* process.env.JWT_SECRET || 'fallback-secret-key'
JWT_SECRET ==
    IF jwtSecretEnv \in {NoValue, ""} THEN "fallback-secret-key" ELSE jwtSecretEnv

Roles == { "ADMIN", "USER" }

NoCookie ==
    [kind |-> "absent", userId |-> "", email |-> "", role |-> "", iat |-> 0, exp |-> 0,
     key |-> ""]
EmptyCookie == [NoCookie EXCEPT !.kind = "empty"]
MalformedToken == [NoCookie EXCEPT !.kind = "malformed"]

\* The accounts table: the seeded administrator, and an account of the other
\* role.  password is the bcrypt hash the seed stores.
Accounts ==
    { [id |-> "admin-1", email |-> "admin@alecam.dev",
       password |-> "$2b$10$hash(admin123456)", role |-> role] : role \in Roles }

AccountOf(role) == CHOOSE account \in Accounts : account.role = role

\* A payload that carries the stored hash.
JWTPayloadWithHash(account) ==
    [userId |-> account.id, email |-> account.password, role |-> account.role]

\* interface JWTPayload { userId, email, role }
JWTPayload(account) ==
    [userId |-> account.id, email |-> account.email, role |-> account.role]

\* expiresIn: '7d'
ExpiresInSeconds == 7 * 24 * 60 * 60

\* A token signed without expiresIn: it never expires.
generateTokenNoExpiry(payload, now) ==
    [kind |-> "jwt", userId |-> payload.userId, email |-> payload.email,
     role |-> payload.role,
     iat |-> now \div 1000, exp |-> (now \div 1000) + 1000 * ExpiresInSeconds,
     key |-> JWT_SECRET]

\* jwt.sign(payload, JWT_SECRET, {expiresIn: '7d'}): iat is the clock
\* truncated to seconds, exp = iat + 7 days.
generateToken(payload, now) ==
    [kind |-> "jwt", userId |-> payload.userId, email |-> payload.email,
     role |-> payload.role,
     iat |-> now \div 1000, exp |-> (now \div 1000) + ExpiresInSeconds,
     key |-> JWT_SECRET]

\* A well-formed ADMIN token a client signs itself with the key it chooses.
ForgedToken(key, now) ==
    [kind |-> "jwt", userId |-> "admin-1", email |-> "admin@alecam.dev",
     role |-> "ADMIN",
     iat |-> now \div 1000, exp |-> (now \div 1000) + ExpiresInSeconds,
     key |-> key]

\* The outcome of signature and expiry verification, shared by
\* jsonwebtoken's verify and jose's jwtVerify.
VerifyOutcome(token, now) ==
    IF token.kind # "jwt" THEN "MALFORMED"
    ELSE IF token.key # JWT_SECRET THEN "BAD_SIGNATURE"
    ELSE IF token.exp <= now \div 1000 THEN "EXPIRED"
    ELSE "OK"

\* A gate that also requires the token to be the session stored last.
jwtVerifyCurrentSessionOnly(token, now) ==
    IF token # cookie THEN "REVOKED" ELSE VerifyOutcome(token, now)

\* jose jwtVerify(token, JWT_SECRET) as the middleware calls it: throws
\* unless the outcome is OK.
jwtVerify(token, now) == VerifyOutcome(token, now)

\* jwt.decode in place of jwt.verify: the payload of any well-formed token
\* with the right key, expired or not.
verifyTokenIgnoringExpiry(token, now) ==
    IF VerifyOutcome(token, now) \in {"OK", "EXPIRED"} THEN token ELSE NoCookie

\* verifyToken: the payload, or null when jwt.verify throws.
verifyToken(token, now) ==
    IF VerifyOutcome(token, now) = "OK" THEN token ELSE NoCookie

\* cookie?.value || null
getAuthToken(r) ==
    IF r.token.kind \in {"absent", "empty"} THEN NoCookie ELSE r.token

getCurrentUser(r, now) ==
    IF getAuthToken(r) = NoCookie THEN NoCookie
    ELSE verifyToken(getAuthToken(r), now)

isAdmin(r, now) == getCurrentUser(r, now).role = "ADMIN"

-----------------------------------------------------------------------------
(* Responses *)

NoBody == [type |-> "none", keys |-> {}, success |-> "", error |-> ""]
HtmlBody == [type |-> "html", keys |-> {}, success |-> "", error |-> ""]
JsonBody(keys, success, error) ==
    [type |-> "json", keys |-> keys, success |-> success, error |-> error]

\* NextResponse.json({ error }, ...)
ErrorOnly(error) == JsonBody({"error"}, "", error)
\* NextResponse.json({ success: false, error }, ...)
Failure(error) == JsonBody({"success", "error"}, "false", error)

Response(by, status, location, body, headers) ==
    [by |-> by, status |-> status, location |-> location, body |-> body,
     headers |-> headers]

HeaderKeys(headers) == { h[1] : h \in headers }

\* Headers.set / object spread: a key set later replaces the earlier value.
MergeHeaders(earlier, later) ==
    later \cup { h \in earlier : h[1] \notin HeaderKeys(later) }

ACAO == "Access-Control-Allow-Origin"
ACAC == "Access-Control-Allow-Credentials"
ACAM == "Access-Control-Allow-Methods"
ACAH == "Access-Control-Allow-Headers"
ACMA == "Access-Control-Max-Age"
CorsHeaderNames == { ACAO, ACAC, ACAM, ACAH, ACMA }

-----------------------------------------------------------------------------
(* lib/cors *)

PRODUCTION_ORIGINS == { "https://alecam.dev", "https://www.alecam.dev" }
DEVELOPMENT_ORIGINS == { "http://localhost:5173", "http://localhost:3000" }

getAllowedOrigins ==
    IF nodeEnv = "production" THEN PRODUCTION_ORIGINS
    ELSE PRODUCTION_ORIGINS \cup DEVELOPMENT_ORIGINS

getCorsHeaders(origin) ==
    { <<ACAM, <<"GET, POST, PUT, PATCH, DELETE, OPTIONS">>>>,
      <<ACAH, <<"Content-Type, Authorization, Cache-Control, Pragma, Expires">>>>,
      <<ACMA, <<"86400">>>> }
    \cup
    IF origin # NoValue /\ origin \in getAllowedOrigins
    THEN { <<ACAO, <<origin>>>>, <<ACAC, <<"true">>>> }
    ELSE {}

addCorsHeaders(response, origin) ==
    [response EXCEPT !.headers = MergeHeaders(@, getCorsHeaders(origin))]

-----------------------------------------------------------------------------
(* next.config: headers() for source '/api/:path*' *)

ConfigAllowedOrigins ==
    IF nodeEnv = "production"
    THEN <<"https://alecam.dev", "https://www.alecam.dev">>
    ELSE <<"http://localhost:5173", "http://localhost:5174">>

\* allowedOrigins.join(',') is one header value made of the listed origins.
nextConfigHeadersFor(path) ==
    IF nextConfigHeaders /\ MatchesPattern(path, PathApi)
    THEN { <<ACAC, <<"true">>>>,
           <<ACAO, ConfigAllowedOrigins>>,
           <<ACAM, <<"GET,POST,PUT,DELETE,OPTIONS">>>>,
           <<ACAH, <<"Content-Type, Authorization, Cookie">>>> }
    ELSE {}

-----------------------------------------------------------------------------
(* middleware.ts *)

MiddlewareAllowedOrigins ==
    { "https://alecam.dev", "https://www.alecam.dev",
      "http://localhost:5173", "http://localhost:3000" }

\* What the middleware returns: a response of its own (decision "respond")
\* or NextResponse.next() with headers to add (decision "next").  authSteps
\* records how far the credential checks went: "none", "cookie" (the cookie
\* was read) or "verified" (jwtVerify was called).
MwResult(decision, authSteps, status, location, body, headers) ==
    [decision |-> decision, authSteps |-> authSteps, status |-> status,
     location |-> location, body |-> body, headers |-> headers]

MwRedirectLogin(authSteps) ==
    MwResult("respond", authSteps, 307, PathLogin, NoBody, {})

MwDenyJsonOnly(pathname, authSteps, status, error) ==
    MwResult("respond", authSteps, status, <<>>, ErrorOnly(error), {})

MwDenyRedirectOnly(pathname, authSteps, status, error) ==
    MwRedirectLogin(authSteps)

MwDeny(pathname, authSteps, status, error) ==
    IF StartsWith(pathname, PathDashboard)
    THEN MwRedirectLogin(authSteps)
    ELSE MwResult("respond", authSteps, status, <<>>, ErrorOnly(error), {})

MwAdminPreflight ==
    MwResult("respond", "none", 200, <<>>, NoBody,
             { <<ACAC, <<"true">>>>,
               <<ACAM, <<"GET, POST, PUT, PATCH, DELETE, OPTIONS">>>>,
               <<ACAH, <<"Content-Type, Authorization, Cookie">>>> })

MwPublicCorsHeaders(origin) ==
    IF origin # NoValue /\ origin \in MiddlewareAllowedOrigins
    THEN { <<ACAO, <<origin>>>>, <<ACAC, <<"true">>>>,
           <<ACAM, <<"GET, POST, PUT, PATCH, DELETE, OPTIONS">>>>,
           <<ACAH, <<"Content-Type, Authorization">>>> }
    ELSE {}

\* A filter that refuses origins outside the list instead of only omitting
\* the headers.
MwPublicRejectUnknownOrigin(r, authSteps) ==
    IF r.origin # NoValue /\ r.origin \notin MiddlewareAllowedOrigins
    THEN MwResult("respond", authSteps, 403, <<>>, ErrorOnly("Forbidden"), {})
    ELSE IF r.method = "OPTIONS"
    THEN MwResult("respond", authSteps, 200, <<>>, NoBody,
                  MwPublicCorsHeaders(r.origin))
    ELSE MwResult("next", authSteps, 0, <<>>, NoBody, MwPublicCorsHeaders(r.origin))

MwPublic(r, authSteps) ==
    IF r.method = "OPTIONS"
    THEN MwResult("respond", authSteps, 200, <<>>, NoBody,
                  MwPublicCorsHeaders(r.origin))
    ELSE MwResult("next", authSteps, 0, <<>>, NoBody,
                  MwPublicCorsHeaders(r.origin))

MwAfterAuth(r, authSteps) ==
    LET isPublicApiRoute ==
            StartsWith(r.path, PathApiSlash) /\ ~StartsWith(r.path, PathApiAdmin)
    IN  IF isPublicApiRoute THEN MwPublic(r, authSteps)
        ELSE MwResult("next", authSteps, 0, <<>>, NoBody, {})

\* The OPTIONS exemption: pathname.startsWith('/api/admin') && method === 'OPTIONS'
IsAdminPreflightNever(r) == FALSE
IsAdminPreflight(r) == StartsWith(r.path, PathApiAdmin) /\ r.method = "OPTIONS"

\* The role check: payload.role !== 'ADMIN' is refused.
HasRequiredRoleAny(payload) == TRUE
HasRequiredRole(payload) == payload.role = "ADMIN"

\* isProtectedRoute: pathname.startsWith('/dashboard') ||
\* pathname.startsWith('/api/admin')
IsProtectedRouteAllApi(pathname) ==
    StartsWith(pathname, PathDashboard) \/ StartsWith(pathname, PathApi)
IsProtectedRoute(pathname) ==
    StartsWith(pathname, PathDashboard) \/ StartsWith(pathname, PathApiAdmin)

middleware(r, now) ==
    LET pathname == r.path
        isProtectedRoute == IsProtectedRoute(pathname)
        token == r.token
    IN  IF ~isProtectedRoute THEN MwAfterAuth(r, "none")
        ELSE IF IsAdminPreflight(r)
        THEN MwAdminPreflight
        ELSE IF token.kind \in {"absent", "empty"}
        THEN MwDeny(pathname, "cookie", 401, "Unauthorized")
        ELSE IF jwtVerify(token, now) # "OK"
        THEN MwDeny(pathname, "verified", 401, "Invalid token")
        ELSE IF ~HasRequiredRole(token)
        THEN MwDeny(pathname, "verified", 403, "Forbidden")
        ELSE MwAfterAuth(r, "verified")

-----------------------------------------------------------------------------
(* Route handlers.  io is what the handler's input validation and database *)
(* calls do during the request: "ok", "invalid" (safeParse fails) or       *)
(* "throws" (a prisma call rejects).                                       *)

Handled(status, body, headers) == Response("handler", status, <<>>, body, headers)

\* app/api/projects/route.ts
ProjectsOPTIONS(r) == Handled(204, NoBody, getCorsHeaders(r.origin))

ProjectsGET(r, io) ==
    IF io = "throws"
    THEN addCorsHeaders(Handled(500, Failure("Failed to fetch projects"), {}), r.origin)
    ELSE addCorsHeaders(Handled(200, JsonBody({"success", "data"}, "true", ""), {}),
                        r.origin)

\* app/api/contact/route.ts
ContactOPTIONS(r) == Handled(204, NoBody, getCorsHeaders(r.origin))

ContactPOST(r, io) ==
    IF io = "invalid"
    THEN addCorsHeaders(
             Handled(400, JsonBody({"error", "details"}, "", "Invalid input"), {}),
             r.origin)
    ELSE IF io = "throws"
    THEN addCorsHeaders(Handled(500, ErrorOnly("Failed to send message"), {}), r.origin)
    ELSE addCorsHeaders(
             Handled(201, JsonBody({"success", "message", "id"}, "true", ""), {}),
             r.origin)

\* app/api/admin/projects/route.ts
AdminProjectsGET(r, now, io) ==
    IF ~isAdmin(r, now) THEN Handled(401, Failure("Unauthorized"), {})
    ELSE IF io = "throws" THEN Handled(500, Failure("Failed to fetch projects"), {})
    ELSE Handled(200, JsonBody({"success", "data", "pagination"}, "true", ""), {})

AdminProjectsPOST(r, now, io) ==
    IF ~isAdmin(r, now) THEN Handled(401, Failure("Unauthorized"), {})
    ELSE IF io = "throws" THEN Handled(500, Failure("Failed to create project"), {})
    ELSE IF io = "invalid"
    THEN Handled(400, JsonBody({"success", "error", "details"}, "false",
                               "Validation failed"), {})
    ELSE Handled(201, JsonBody({"success", "data"}, "true", ""), {})

\* app/api/admin/contact/route.ts
AdminContactGET(r, now, io) ==
    IF ~isAdmin(r, now) THEN Handled(401, ErrorOnly("Unauthorized"), {})
    ELSE IF io = "throws" THEN Handled(500, ErrorOnly("Failed to fetch messages"), {})
    ELSE Handled(200, JsonBody({"messages", "pagination"}, "", ""), {})

\* app/dashboard/page.tsx and app/login/page.tsx render HTML.
Page == Handled(200, HtmlBody, {})

\* The file-system router: the handler the route file exports for the method;
\* 405 when the file has no such export, 404 when no file matches the path.
Dispatch(r, now, io) ==
    IF r.path = PathProjects /\ r.method = "GET" THEN ProjectsGET(r, io)
    ELSE IF r.path = PathProjects /\ r.method = "OPTIONS" THEN ProjectsOPTIONS(r)
    ELSE IF r.path = PathContact /\ r.method = "POST" THEN ContactPOST(r, io)
    ELSE IF r.path = PathContact /\ r.method = "OPTIONS" THEN ContactOPTIONS(r)
    ELSE IF r.path = PathAdminProjects /\ r.method = "GET"
    THEN AdminProjectsGET(r, now, io)
    ELSE IF r.path = PathAdminProjects /\ r.method = "POST"
    THEN AdminProjectsPOST(r, now, io)
    ELSE IF r.path = PathAdminContact /\ r.method = "GET"
    THEN AdminContactGET(r, now, io)
    ELSE IF r.path \in {PathDashboard, PathLogin} /\ r.method = "GET" THEN Page
    ELSE IF r.path \in {PathProjects, PathContact, PathAdminProjects,
                        PathAdminContact, PathDashboard, PathLogin}
    THEN Response("router", 405, <<>>, NoBody, {})
    ELSE Response("router", 404, <<>>, HtmlBody, {})

-----------------------------------------------------------------------------
(* One request through next.config headers, the middleware and the router *)

GateOf(r, now) ==
    IF MatcherMatches(r.path) THEN middleware(r, now)
    ELSE MwResult("skipped", "none", 0, <<>>, NoBody, {})

Serve(r, now, io) ==
    LET mw == GateOf(r, now)
        inner ==
            IF mw.decision = "respond"
            THEN Response("middleware", mw.status, mw.location, mw.body, mw.headers)
            ELSE LET h == Dispatch(r, now, io)
                 IN  [h EXCEPT !.headers = MergeHeaders(mw.headers, @)]
    IN  [by |-> inner.by, status |-> inner.status, location |-> inner.location,
         body |-> inner.body,
         headers |-> MergeHeaders(nextConfigHeadersFor(r.path), inner.headers),
         gate |-> mw.decision, authSteps |-> mw.authSteps]

-----------------------------------------------------------------------------
(* JSON values.  A value carries its JavaScript type and, for a string, the *)
(* pieces whose concatenation is the string (character by character where   *)
(* a pattern is matched against it); an i18n object carries its en and es   *)
(* texts.                                                                   *)

JsVal(t, v) == [t |-> t, v |-> v]
Undefined == JsVal("undefined", <<>>)
Null == JsVal("null", <<>>)
Str(pieces) == JsVal("string", pieces)
EmptyString == Str(<<>>)
JsTrue == JsVal("boolean", <<"true">>)
JsFalse == JsVal("boolean", <<"false">>)
I18n(en, es) == JsVal("object", <<en, es>>)

\* !item.published
JsNot(b) == IF b = JsTrue THEN JsFalse ELSE JsTrue

\* a || null
OrNull(a) == IF a \in {Undefined, Null, EmptyString, JsFalse} THEN Null ELSE a

\* a ?? undefined
NullishToUndefined(a) == IF a \in {Undefined, Null} THEN Undefined ELSE a

\* a ?? null
NullishToNull(a) == IF a \in {Undefined, Null} THEN Null ELSE a

-----------------------------------------------------------------------------
(* lib/validators: zod schemas.  A schema applied to a value yields the     *)
(* issues it raises and the value it outputs; safeParse of an object runs    *)
(* every declared field, collects all their issues, and outputs only the    *)
(* declared keys.                                                           *)

Issue(path, message) == [path |-> path, message |-> message]
Parsed(issues, value) == [issues |-> issues, value |-> value]
Valid(value) == Parsed({}, value)
Invalid(path, message) == Parsed({Issue(path, message)}, Undefined)

\* zod's message for a value of the wrong type
TypeIssue(path, expected, v) ==
    IF v.t = "undefined" THEN Invalid(path, "Required")
    ELSE Invalid(path, "Expected " \o expected)

LowerAlnum ==
    { "a", "b", "c", "d", "e", "f", "g", "h", "i", "j", "k", "l", "m", "n", "o",
      "p", "q", "r", "s", "t", "u", "v", "w", "x", "y", "z",
      "0", "1", "2", "3", "4", "5", "6", "7", "8", "9" }

\* /^[a-z0-9]+(?:-[a-z0-9]+)*$/ on a string given character by character
MatchesSlugPattern(chars) ==
    /\ Len(chars) > 0
    /\ \A i \in 1..Len(chars) :
         \/ chars[i] \in LowerAlnum
         \/ /\ chars[i] = "-"
            /\ 1 < i /\ i < Len(chars)
            /\ chars[i - 1] # "-"

\* z.string().min(1, minMessage).max(100).regex(pattern, regexMessage)
SlugString(v, minMessage, regexMessage) ==
    IF v.t # "string" THEN TypeIssue(<<"slug">>, "string", v)
    ELSE Parsed(
           (IF Len(v.v) < 1 THEN {Issue(<<"slug">>, minMessage)} ELSE {})
           \cup (IF Len(v.v) > 100
                 THEN {Issue(<<"slug">>, "String must contain at most 100 character(s)")}
                 ELSE {})
           \cup (IF ~MatchesSlugPattern(v.v) THEN {Issue(<<"slug">>, regexMessage)}
                 ELSE {}),
           v)

\* createProjectSchema.slug
CreateSlug(v) ==
    SlugString(v, "Slug is required", "Slug must be lowercase alphanumeric with hyphens")

\* updateProjectSchema.slug: .min(1).max(100).regex(pattern).optional(), with
\* the library's own messages
UpdateSlug(v) ==
    IF v.t = "undefined" THEN Valid(Undefined)
    ELSE SlugString(v, "String must contain at least 1 character(s)", "Invalid")

\* i18nStringSchema
i18nStringSchema(field, v) ==
    IF v.t # "object" THEN TypeIssue(<<field>>, "object", v)
    ELSE Parsed(
           (IF v.v[1] = "" THEN {Issue(<<field, "en">>, "English text is required")}
            ELSE {})
           \cup (IF v.v[2] = "" THEN {Issue(<<field, "es">>, "Spanish text is required")}
                 ELSE {}),
           v)

\* schema.optional()
OptionalI18n(field, v) ==
    IF v.t = "undefined" THEN Valid(Undefined) ELSE i18nStringSchema(field, v)

\* schema.nullable().optional()
NullableOptionalI18n(field, v) ==
    IF v.t \in {"undefined", "null"} THEN Valid(v) ELSE i18nStringSchema(field, v)

\* new URL(s) succeeds: the string begins with a scheme.
IsUrl(pieces) == Len(pieces) >= 2 /\ pieces[1] \in {"https:", "http:"}

\* z.string().email(): local part, "@", domain
IsEmail(pieces) ==
    Len(pieces) = 3 /\ pieces[1] # "" /\ pieces[2] = "@" /\ pieces[3] # ""

\* z.preprocess(val => val === '' || val === undefined ? null : val,
\*              z.string().url(message).nullable()).optional().nullable()
\* null and undefined are answered by the outer wrappers before the
\* preprocessor runs.
OptionalUrl(field, v, message) ==
    IF v.t \in {"undefined", "null"} THEN Valid(v)
    ELSE IF v = EmptyString THEN Valid(Null)
    ELSE IF v.t # "string" THEN TypeIssue(<<field>>, "string", v)
    ELSE IF ~IsUrl(v.v) THEN Invalid(<<field>>, message)
    ELSE Valid(v)

\* z.boolean().default(d)
BooleanDefault(field, v, d) ==
    IF v.t = "undefined" THEN Valid(d)
    ELSE IF v.t # "boolean" THEN TypeIssue(<<field>>, "boolean", v)
    ELSE Valid(v)

\* A partial() that kept the default of the field it wraps.
OptionalBooleanDefaultTrue(field, v) == BooleanDefault(field, v, JsTrue)

\* z.boolean().default(d).optional(), as partial() makes it: an absent value
\* is passed through as undefined and the default is not applied.
OptionalBoolean(field, v) ==
    IF v.t = "undefined" THEN Valid(Undefined)
    ELSE IF v.t # "boolean" THEN TypeIssue(<<field>>, "boolean", v)
    ELSE Valid(v)

\* z.string().min(min, message).max(max)
BoundedString(field, v, min, message, max) ==
    IF v.t # "string" THEN TypeIssue(<<field>>, "string", v)
    ELSE IF Len(v.v) < min THEN Invalid(<<field>>, message)
    ELSE IF Len(v.v) > max THEN Invalid(<<field>>, "String is too long")
    ELSE Valid(v)

\* z.string().email(message)
EmailString(field, v, message) ==
    IF v.t # "string" THEN TypeIssue(<<field>>, "string", v)
    ELSE IF ~IsEmail(v.v) THEN Invalid(<<field>>, message)
    ELSE Valid(v)

\* The fields of the request bodies and of the stored rows.
UrlFields == { "imageUrl", "githubUrl", "liveUrl" }
ProjectFields == { "slug", "title", "published" } \cup UrlFields
CertificationFields == { "title", "issuer", "imageUrl", "credentialUrl", "published" }
AboutFields == { "title", "shortBio", "location", "email" }
ContactFields == { "name", "email", "subject", "message" }
\* Keys no schema declares: the row's identity and timestamp.
UndeclaredFields == { "id", "createdAt" }

\* The output of z.object(shape) keeps the keys of the shape and drops every
\* other key of the input.
ObjectOutputPassthrough(fields, parsedField, body) ==
    [f \in DOMAIN body |-> IF f \in fields THEN parsedField[f].value ELSE body[f]]

ObjectOutput(fields, parsedField, body) ==
    [f \in fields |-> parsedField[f].value]

\* A parser that stops at the first field in error.
SafeParseFirstIssueOnly(fields, parsedField, body) ==
    LET all == UNION { parsedField[f].issues : f \in fields }
    IN  [success |-> all = {},
         issues |-> IF all = {} THEN {} ELSE {CHOOSE i \in all : TRUE},
         data |-> ObjectOutput(fields, parsedField, body)]

\* z.object(shape).safeParse(body): every field of the shape is parsed and the
\* issues of all of them are reported together.
SafeParse(fields, parsedField, body) ==
    [success |-> (\A f \in fields : parsedField[f].issues = {}),
     issues |-> UNION { parsedField[f].issues : f \in fields },
     data |-> ObjectOutput(fields, parsedField, body)]

createProjectSchema(body) ==
    SafeParse(ProjectFields,
        [f \in ProjectFields |->
           IF f = "slug" THEN CreateSlug(body[f])
           ELSE IF f = "title" THEN i18nStringSchema(f, body[f])
           ELSE IF f = "imageUrl" THEN OptionalUrl(f, body[f], "Invalid image URL")
           ELSE IF f = "githubUrl" THEN OptionalUrl(f, body[f], "Invalid GitHub URL")
           ELSE IF f = "liveUrl" THEN OptionalUrl(f, body[f], "Invalid live URL")
           ELSE BooleanDefault(f, body[f], JsTrue)], body)

updateProjectSchema(body) ==
    SafeParse(ProjectFields,
        [f \in ProjectFields |->
           IF f = "slug" THEN UpdateSlug(body[f])
           ELSE IF f = "title" THEN OptionalI18n(f, body[f])
           ELSE IF f = "imageUrl" THEN OptionalUrl(f, body[f], "Invalid image URL")
           ELSE IF f = "githubUrl" THEN OptionalUrl(f, body[f], "Invalid GitHub URL")
           ELSE IF f = "liveUrl" THEN OptionalUrl(f, body[f], "Invalid live URL")
           ELSE OptionalBoolean(f, body[f])], body)

createCertificationSchema(body) ==
    SafeParse(CertificationFields,
        [f \in CertificationFields |->
           IF f \in {"title", "issuer"} THEN i18nStringSchema(f, body[f])
           ELSE IF f = "imageUrl"
           THEN BoundedString(f, body[f], 1, "Image URL is required", 100000)
           ELSE IF f = "credentialUrl"
           THEN OptionalUrl(f, body[f], "Invalid credential URL")
           ELSE BooleanDefault(f, body[f], JsTrue)], body)

updateCertificationSchema(body) ==
    SafeParse(CertificationFields,
        [f \in CertificationFields |->
           IF f \in {"title", "issuer"} THEN OptionalI18n(f, body[f])
           ELSE IF f = "imageUrl"
           THEN IF body[f].t = "undefined" THEN Valid(Undefined)
                ELSE BoundedString(f, body[f], 1, "Image URL is required", 100000)
           ELSE IF f = "credentialUrl"
           THEN OptionalUrl(f, body[f], "Invalid credential URL")
           ELSE OptionalBoolean(f, body[f])], body)

updateAboutSchema(body) ==
    SafeParse(AboutFields,
        [f \in AboutFields |->
           IF f = "title" THEN i18nStringSchema(f, body[f])
           ELSE IF f = "shortBio" THEN NullableOptionalI18n(f, body[f])
           ELSE IF body[f].t \in {"undefined", "null"} THEN Valid(body[f])
           ELSE IF f = "location" THEN BoundedString(f, body[f], 0, "", 100)
           ELSE EmailString(f, body[f], "Invalid email address")], body)

createContactMessageSchema(body) ==
    SafeParse(ContactFields,
        [f \in ContactFields |->
           IF f = "name" THEN BoundedString(f, body[f], 1, "Name is required", 100)
           ELSE IF f = "email" THEN EmailString(f, body[f], "Invalid email address")
           ELSE IF f = "subject"
           THEN IF body[f].t = "undefined" THEN Valid(Undefined)
                ELSE BoundedString(f, body[f], 0, "", 200)
           ELSE BoundedString(f, body[f], 10,
                              "Message must be at least 10 characters", 5000)], body)

-----------------------------------------------------------------------------
(* The database: one set of rows per table.  A row maps its columns to     *)
(* values; the about table holds at most one row.                           *)

RowColumns(fields) == { "id", "createdAt" } \cup fields
ProjectColumns == RowColumns(ProjectFields)
CertificationColumns == RowColumns(CertificationFields)
AboutColumns == RowColumns(AboutFields)
MessageColumns == RowColumns(ContactFields \cup {"status"})

ProjectIds == { "p1", "p2" }
CertificationIds == { "c1", "c2" }
MessageIds == { "m1", "m2" }
AboutIds == { "about-" \o ToString(i) : i \in 1..MaxInflight }

EmptyDb == [projects |-> {}, certifications |-> {}, about |-> {}, messages |-> {}]

CountRows(d) ==
    Cardinality(d.projects) + Cardinality(d.certifications)
    + Cardinality(d.about) + Cardinality(d.messages)

\* @default(now()) of createdAt; the model's requests all happen at one date.
CreatedAtNow == Str(<<"2026-02-17">>)

\* Prisma.DbNull: "store SQL NULL in this Json column"
DbNull == JsVal("DbNull", <<>>)

\* What a column holds after data[c] was written to it.
Stored(v) == IF v = DbNull THEN Null ELSE v

Written(data, c) == c \in DOMAIN data /\ data[c].t # "undefined"

\* prisma.<table>.create({data}): a key the data leaves out or undefined gets
\* the column's default (a generated id, now(), or NULL).
prismaCreate(columns, id, data) ==
    [c \in columns |->
       IF Written(data, c) THEN Stored(data[c])
       ELSE IF c = "id" THEN Str(<<id>>)
       ELSE IF c = "createdAt" THEN CreatedAtNow
       ELSE Null]

\* prisma.<table>.update({where, data}) on the row found: a key the data
\* leaves out or undefined keeps the stored value.
prismaUpdate(row, data) ==
    [c \in DOMAIN row |-> IF Written(data, c) THEN Stored(data[c]) ELSE row[c]]

\* where: { id }
WhereId(rows, id) == { row \in rows : row["id"] = Str(<<id>>) }

\* findFirst: one of the matching rows, or none
FindFirst(matches) == IF matches = {} THEN {{}} ELSE { {row} : row \in matches }

\* catch (error): error.code === 'P2025' is answered 404, anything else 500.
CatchStatusAlways500(code) == 500
CatchStatus(code) == IF code = "P2025" THEN 404 ELSE 500

-----------------------------------------------------------------------------
(* Route handlers working on the database.  A handler yields its response,  *)
(* the issues it reports, the data it hands to the persistence call, the   *)
(* rows it returns, the database it leaves and the number of database      *)
(* calls it made.  The database answers every call here; a call that       *)
(* rejects is the "throws" outcome of the handlers above.                   *)

NoData == [f \in {} |-> Undefined]

Outcome(status, body, headers, details, data, rows, dbAfter, dbCalls) ==
    [status |-> status, body |-> body, headers |-> headers, details |-> details,
     data |-> data, rows |-> rows, db |-> dbAfter, dbCalls |-> dbCalls,
     invalidated |-> {}, cacheError |-> FALSE]

\* lib/cache.  revalidatePath either purges the path or throws.
RevalidateOutcomes == { "ok", "throws" }

\* CacheManager.invalidateCertifications: revalidatePath('/api/certifications')
invalidateCertifications == { <<"/", "api", "/", "certifications">> }

\* A handler whose invalidation call went through: outcome h, with the paths
\* purged.
Invalidating(h, paths) == [h EXCEPT !.invalidated = paths]

\* The invalidation call threw inside the handler's try block: the catch
\* block answers with the handler's failure response; what the handler had
\* written stays written.
CacheThrew(h, failure) ==
    [h EXCEPT !.status = 500, !.body = failure, !.rows = {}, !.cacheError = TRUE]

\* A response that touches nothing.
Refusal(status, body, d, dbCalls) ==
    Outcome(status, body, {}, {}, NoData, {}, d, dbCalls)

ValidationFailed(result, d) ==
    Outcome(400, JsonBody({"success", "error", "details"}, "false", "Validation failed"),
            {}, result.issues, NoData, {}, d, 0)

PathAdminCertifications == <<"/", "api", "/", "admin", "/", "certifications">>
PathAdminAbout == <<"/", "api", "/", "admin", "/", "about">>
PathCertifications == <<"/", "api", "/", "certifications">>
ItemPath(collection, id) == collection \o <<"/", id>>

\* POST /api/admin/projects.  id is the identifier the database generates.
ProjectPOST(r, now, body, id, d) ==
    IF ~isAdmin(r, now) THEN Refusal(401, Failure("Unauthorized"), d, 0)
    ELSE LET result == createProjectSchema(body)
         IN  IF ~result.success THEN ValidationFailed(result, d)
             ELSE IF \E existing \in d.projects : existing["slug"] = result.data["slug"]
             THEN Refusal(400, Failure("A project with this slug already exists"), d, 1)
             ELSE LET data == [f \in DOMAIN result.data |->
                                 IF f \in UrlFields THEN OrNull(result.data[f])
                                 ELSE result.data[f]]
                      project == prismaCreate(ProjectColumns, id, data)
                  IN  Outcome(201, JsonBody({"success", "data"}, "true", ""), {},
                              {}, data, {project},
                              [d EXCEPT !.projects = @ \cup {project}], 2)

\* PATCH /api/admin/projects/[id]
ProjectPATCH(r, now, id, body, d) ==
    IF ~isAdmin(r, now) THEN Refusal(401, Failure("Unauthorized"), d, 0)
    ELSE LET result == updateProjectSchema(body)
         IN  IF ~result.success THEN ValidationFailed(result, d)
             ELSE IF /\ result.data["slug"] \notin {Undefined, EmptyString}
                     /\ \E existing \in d.projects :
                          /\ existing["slug"] = result.data["slug"]
                          /\ existing["id"] # Str(<<id>>)
             THEN Refusal(400, Failure("A project with this slug already exists"), d, 1)
             ELSE LET slugLookups == IF result.data["slug"] = Undefined THEN 0 ELSE 1
                      data == [f \in DOMAIN result.data |->
                                 IF f \in UrlFields
                                 THEN IF result.data[f] = EmptyString THEN Null
                                      ELSE NullishToUndefined(result.data[f])
                                 ELSE result.data[f]]
                      found == WhereId(d.projects, id)
                  IN  IF found = {}
                      THEN Outcome(CatchStatus("P2025"), Failure("Project not found"),
                                   {}, {}, data, {}, d, slugLookups + 1)
                      ELSE LET old == CHOOSE row \in found : TRUE
                               project == prismaUpdate(old, data)
                           IN  Outcome(200, JsonBody({"success", "data"}, "true", ""),
                                       {}, {}, data, {project},
                                       [d EXCEPT !.projects = (@ \ {old}) \cup {project}],
                                       slugLookups + 1)

\* DELETE /api/admin/projects/[id]
ProjectDELETE(r, now, id, d) ==
    IF ~isAdmin(r, now) THEN Refusal(401, Failure("Unauthorized"), d, 0)
    ELSE LET found == WhereId(d.projects, id)
         IN  IF found = {}
             THEN Refusal(CatchStatus("P2025"), Failure("Project not found"), d, 1)
             ELSE Outcome(200, JsonBody({"success", "message"}, "true", ""), {}, {},
                          NoData, {}, [d EXCEPT !.projects = @ \ found], 1)

\* POST /api/admin/certifications
\* After the row is created the handler calls
\* CacheManager.invalidateCertifications inside its try block; revalidate is
\* what revalidatePath did.
CertificationPOST(r, now, body, id, d, revalidate) ==
    IF ~isAdmin(r, now) THEN Refusal(401, Failure("Unauthorized"), d, 0)
    ELSE LET result == createCertificationSchema(body)
         IN  IF ~result.success THEN ValidationFailed(result, d)
             ELSE LET data == [f \in DOMAIN result.data |->
                                 IF f = "credentialUrl" THEN OrNull(result.data[f])
                                 ELSE result.data[f]]
                      certification == prismaCreate(CertificationColumns, id, data)
                      created ==
                          Outcome(201, JsonBody({"success", "data"}, "true", ""), {},
                                  {}, data, {certification},
                                  [d EXCEPT !.certifications = @ \cup {certification}], 1)
                  IN  IF revalidate = "throws"
                      THEN CacheThrew(created, Failure("Failed to create certification"))
                      ELSE Invalidating(created, invalidateCertifications)

\* PATCH /api/admin/certifications/[id]: updateData gets one key per declared
\* field whose parsed value is not undefined.
CertificationPATCH(r, now, id, body, d) ==
    IF ~isAdmin(r, now) THEN Refusal(401, Failure("Unauthorized"), d, 0)
    ELSE LET result == updateCertificationSchema(body)
         IN  IF ~result.success THEN ValidationFailed(result, d)
             ELSE LET updateData ==
                          [f \in CertificationFields |->
                             IF result.data[f] = Undefined THEN Undefined
                             ELSE IF f = "issuer" THEN NullishToUndefined(result.data[f])
                             ELSE IF f = "credentialUrl"
                             THEN NullishToNull(result.data[f])
                             ELSE result.data[f]]
                      found == WhereId(d.certifications, id)
                  IN  IF found = {}
                      THEN Outcome(CatchStatus("P2025"),
                                   Failure("Certification not found"),
                                   {}, {}, updateData, {}, d, 1)
                      ELSE LET old == CHOOSE row \in found : TRUE
                               certification == prismaUpdate(old, updateData)
                           IN  Outcome(200, JsonBody({"success", "data"}, "true", ""),
                                       {}, {}, updateData, {certification},
                                       [d EXCEPT !.certifications =
                                                   (@ \ {old}) \cup {certification}],
                                       1)

\* DELETE /api/admin/certifications/[id]
CertificationDELETE(r, now, id, d) ==
    IF ~isAdmin(r, now) THEN Refusal(401, Failure("Unauthorized"), d, 0)
    ELSE LET found == WhereId(d.certifications, id)
         IN  IF found = {}
             THEN Refusal(CatchStatus("P2025"), Failure("Certification not found"), d, 1)
             ELSE Outcome(200, JsonBody({"success", "message"}, "true", ""), {}, {},
                          NoData, {}, [d EXCEPT !.certifications = @ \ found], 1)

\* lib/prisma-helpers
toOptionalJson(value) ==
    IF value = Null THEN DbNull
    ELSE IF value = Undefined THEN Undefined
    ELSE value

\* PUT /api/admin/about.  The handler itself asks for no credential.  id is
\* the identifier the database generates when the record is created.
AboutPUT(r, now, body, id, d) ==
    LET result == updateAboutSchema(body)
    IN  IF ~result.success THEN ValidationFailed(result, d)
        ELSE LET data ==
                     [f \in AboutFields |->
                        IF f = "title" THEN result.data[f]
                        ELSE IF f = "shortBio" THEN toOptionalJson(result.data[f])
                        ELSE NullishToUndefined(result.data[f])]
                 about ==
                     IF d.about # {}
                     THEN prismaUpdate(CHOOSE existing \in d.about : TRUE, data)
                     ELSE prismaCreate(AboutColumns, id, data)
             IN  Outcome(200, JsonBody({"success", "data"}, "true", ""), {}, {},
                         data, {about}, [d EXCEPT !.about = {about}], 2)

\* POST /api/contact
ContactSubmit(r, body, id, d) ==
    LET result == createContactMessageSchema(body)
    IN  IF ~result.success
        THEN Outcome(400, JsonBody({"error", "details"}, "", "Invalid input"),
                     getCorsHeaders(r.origin), result.issues, NoData, {}, d, 0)
        ELSE LET data == [f \in ContactFields \cup {"status"} |->
                            IF f = "status" THEN Str(<<"UNREAD">>)
                            ELSE IF f = "subject" THEN OrNull(result.data[f])
                            ELSE result.data[f]]
                 contactMessage == prismaCreate(MessageColumns, id, data)
             IN  Outcome(201, JsonBody({"success", "message", "id"}, "true", ""),
                         getCorsHeaders(r.origin), {}, data, {},
                         [d EXCEPT !.messages = @ \cup {contactMessage}], 1)

\* CREATE TYPE "MessageStatus" AS ENUM ('UNREAD', 'READ', 'ARCHIVED')
MessageStatus == { Str(<<"UNREAD">>), Str(<<"READ">>), Str(<<"ARCHIVED">>) }

\* A list of accepted values that has one value the column type lacks.
MessageStatusesAndDone == MessageStatus \cup { Str(<<"DONE">>) }

\* ['UNREAD', 'READ', 'ARCHIVED'], the values the PATCH handler accepts
MessageStatuses == { Str(<<"UNREAD">>), Str(<<"READ">>), Str(<<"ARCHIVED">>) }

\* PATCH /api/admin/contact/[id]
MessagePATCH(r, now, id, body, d) ==
    IF ~isAdmin(r, now) THEN Refusal(401, ErrorOnly("Unauthorized"), d, 0)
    ELSE IF body["status"] \notin MessageStatuses
    THEN Refusal(400, ErrorOnly("Invalid status"), d, 0)
    ELSE LET data == [f \in {"status"} |-> body[f]]
             found == WhereId(d.messages, id)
         IN  IF found = {}
             THEN Outcome(CatchStatus("P2025"), ErrorOnly("Message not found"),
                          {}, {}, data, {}, d, 1)
             ELSE LET old == CHOOSE row \in found : TRUE
                      message == prismaUpdate(old, data)
                  IN  Outcome(200, JsonBody({"message"}, "", ""), {}, {}, data,
                              {message},
                              [d EXCEPT !.messages = (@ \ {old}) \cup {message}], 1)

\* DELETE /api/admin/contact/[id]
MessageDELETE(r, now, id, d) ==
    IF ~isAdmin(r, now) THEN Refusal(401, ErrorOnly("Unauthorized"), d, 0)
    ELSE LET found == WhereId(d.messages, id)
         IN  IF found = {}
             THEN Refusal(CatchStatus("P2025"), ErrorOnly("Message not found"), d, 1)
             ELSE Outcome(200, JsonBody({"success"}, "true", ""), {}, {}, NoData, {},
                          [d EXCEPT !.messages = @ \ found], 1)

\* GET /api/projects: where { published: true }
ProjectsList(r, d) ==
    Outcome(200, JsonBody({"success", "data"}, "true", ""), getCorsHeaders(r.origin),
            {}, NoData, { row \in d.projects : row["published"] = JsTrue }, d, 1)

\* GET /api/projects/[id]: where { OR: [{id}, {slug: id}], published: true };
\* found is what findFirst returned.
ProjectDetailMatches(param, d) ==
    { row \in d.projects :
        /\ row["id"].v = param \/ row["slug"].v = param
        /\ row["published"] = JsTrue }

ProjectDetail(r, found, d) ==
    IF found = {}
    THEN Outcome(404, Failure("Project not found"), getCorsHeaders(r.origin),
                 {}, NoData, {}, d, 1)
    ELSE Outcome(200, JsonBody({"success", "data"}, "true", ""),
                 getCorsHeaders(r.origin), {}, NoData, found, d, 1)

\* GET /api/certifications: where { published: true }
CertificationsList(r, d) ==
    Outcome(200, JsonBody({"success", "data"}, "true", ""), getCorsHeaders(r.origin),
            {}, NoData, { row \in d.certifications : row["published"] = JsTrue }, d, 1)

\* GET /api/certifications/[id].  The source holds two revisions of this
\* route: "findUnique" looks the row up by id alone, "findFirst" adds
\* published: true to the where clause.
CertificationDetailRevisions == { "findUnique", "findFirst" }

CertificationDetailMatches(revision, id, d) ==
    { row \in WhereId(d.certifications, id) :
        revision = "findFirst" => row["published"] = JsTrue }

CertificationDetail(r, revision, found, d) ==
    IF revision = "findUnique"
    THEN IF found = {}
         THEN Outcome(404, ErrorOnly("Certification not found"), {}, {}, NoData, {}, d, 1)
         ELSE Outcome(200, JsonBody({"certification"}, "", ""), {}, {}, NoData,
                      found, d, 1)
    ELSE IF found = {}
    THEN Outcome(404, Failure("Certification not found"), getCorsHeaders(r.origin),
                 {}, NoData, {}, d, 1)
    ELSE Outcome(200, JsonBody({"success", "data"}, "true", ""),
                 getCorsHeaders(r.origin), {}, NoData, found, d, 1)

\* Handler invocations in flight: per slot, where the invocation stands
\* ("idle", "checked" after its read, "done" once it has answered), what it
\* was asked, what its read saw and what it answered.
Slots == 1..MaxInflight
NoCall ==
    [pc |-> "idle", handler |-> "", id |-> "", body |-> [f \in {} |-> Undefined],
     data |-> [f \in {} |-> Undefined], seen |-> {}, status |-> 0, error |-> "",
     conflict |-> FALSE]
NoCalls == [slot \in Slots |-> NoCall]

\* What a request that reached no handler leaves behind.
NoOp ==
    [handler |-> "", id |-> "", body |-> NoData, details |-> {}, data |-> NoData,
     rows |-> {}, dbCalls |-> 0, before |-> EmptyDb, invalidated |-> {},
     cacheError |-> FALSE]


-----------------------------------------------------------------------------
(* State machine *)

Origins ==
    { NoValue, "https://alecam.dev", "http://localhost:5173", "https://evil.example" }

IoOutcomes(method) ==
    IF method = "POST" THEN {"ok", "invalid", "throws"} ELSE {"ok", "throws"}

\* Interval lengths the clock advances by: half a second, and half a second
\* less than the token lifetime.
ClockSteps == { 500, ExpiresInSeconds * 1000 - 500 }

NoRequest ==
    [path |-> <<>>, method |-> "", origin |-> NoValue, token |-> NoCookie, io |-> ""]
NoResponse ==
    [by |-> "", status |-> 0, location |-> <<>>, body |-> NoBody, headers |-> {},
     gate |-> "", authSteps |-> ""]

Init ==
    /\ nodeEnv \in {"production", "development"}
    /\ nextConfigHeaders \in BOOLEAN
    /\ jwtSecretEnv \in {NoValue, "configured-secret"}
    /\ clock = 0
    /\ ticks = 0
    /\ issued = {}
    /\ cookie = NoCookie
    /\ req = NoRequest
    /\ resp = NoResponse
    /\ db = EmptyDb
    /\ op = NoOp
    /\ inflight = NoCalls

Idle == req = NoRequest

Tick ==
    /\ Idle
    /\ ticks < MaxTicks
    /\ \E d \in ClockSteps : clock' = clock + d
    /\ ticks' = ticks + 1
    /\ UNCHANGED <<inflight, nodeEnv, nextConfigHeaders, jwtSecretEnv,
                 issued, cookie, req, resp,
                 db, op>>

\* setAuthCookie(token)
setAuthCookie(token) == cookie' = token

\* POST /api/auth/login with good credentials: generateToken, setAuthCookie.
Login ==
    /\ Idle
    /\ Cardinality(issued) < MaxTokens
    /\ \E role \in Roles :
         LET token == generateToken(JWTPayload(AccountOf(role)), clock)
         IN  /\ issued' = issued \cup {token}
             /\ setAuthCookie(token)
    /\ UNCHANGED <<inflight, nodeEnv, nextConfigHeaders, jwtSecretEnv,
                 clock, ticks, req, resp,
                 db, op>>

\* clearAuthCookie()
clearAuthCookie == cookie' = NoCookie

\* POST /api/auth/logout
Logout ==
    /\ Idle
    /\ cookie # NoCookie
    /\ clearAuthCookie
    /\ UNCHANGED <<inflight, nodeEnv, nextConfigHeaders, jwtSecretEnv,
                 clock, ticks, issued, req, resp,
                 db, op>>

\* The cookie values a client can send: none, an empty or malformed value, the
\* browser's cookie, any token issued so far, or a token the client signed
\* with a key of its own or with the default the source code shows.
TokensToSend ==
    {NoCookie, EmptyCookie, MalformedToken, cookie} \cup issued
    \cup { ForgedToken(key, clock) : key \in {"attacker-key", "fallback-secret-key"} }

\* A handler runs, and its validation and database calls have an outcome,
\* only when the middleware lets the request through to a route that exists.
ReachesHandler(r, now) ==
    /\ GateOf(r, now).decision # "respond"
    /\ Dispatch(r, now, "ok").by = "handler"

\* A request arrives and is answered.
Request ==
    /\ Idle
    /\ \E path \in Paths, method \in Methods, origin \in Origins,
          token \in TokensToSend :
         LET r0 == [path |-> path, method |-> method, origin |-> origin,
                    token |-> token, io |-> "none"]
         IN  \E io \in IF ReachesHandler(r0, clock) THEN IoOutcomes(method)
                       ELSE {"none"} :
               /\ req' = [r0 EXCEPT !.io = io]
               /\ resp' = Serve(r0, clock, io)
    /\ UNCHANGED <<inflight, nodeEnv, nextConfigHeaders, jwtSecretEnv,
                 clock, ticks, issued, cookie,
                 db, op>>

\* The response has been sent: the exchange is over.
Complete ==
    /\ ~Idle
    /\ req' = NoRequest
    /\ resp' = NoResponse
    /\ op' = NoOp
    /\ UNCHANGED <<inflight, nodeEnv, nextConfigHeaders, jwtSecretEnv,
                 clock, ticks, issued, cookie,
                 db>>

Next == Tick \/ Login \/ Logout \/ Request \/ Complete

Spec == Init /\ [][Next]_vars

\* The gate reads neither NODE_ENV nor the CORS lists: its properties are
\* stated for the production environment, with either next.config.
InitGate == Init /\ nodeEnv = "production"
SpecGate == InitGate /\ [][Next]_vars

\* The cross-origin filter reads no clock: its properties are stated at one
\* instant, in every environment and with either next.config.
InitCors == Init /\ jwtSecretEnv = "configured-secret"
NextCors == Login \/ Logout \/ Request \/ Complete
SpecCors == InitCors /\ [][NextCors]_vars

-----------------------------------------------------------------------------
(* Requests that reach the database *)

\* The middleware answered the request itself: no handler is invoked.
GateStopsNever(mw) == FALSE
GateStops(mw) == mw.decision = "respond"

StoreRequest(path, method, token) ==
    [path |-> path, method |-> method, origin |-> "https://alecam.dev",
     token |-> token, io |-> "none"]

\* The middleware's own response ends the request.
Refused(r, mw) ==
    /\ req' = r
    /\ resp' = [by |-> "middleware", status |-> mw.status, location |-> mw.location,
                body |-> mw.body,
                headers |-> MergeHeaders(nextConfigHeadersFor(r.path), mw.headers),
                gate |-> mw.decision, authSteps |-> mw.authSteps]
    /\ db' = db
    /\ op' = [NoOp EXCEPT !.before = db]

\* The handler ran with outcome h.
Answered(r, mw, handler, id, body, h) ==
    /\ req' = [r EXCEPT !.io = "ok"]
    /\ resp' = [by |-> "handler", status |-> h.status, location |-> <<>>,
                body |-> h.body,
                headers |-> MergeHeaders(nextConfigHeadersFor(r.path),
                                         MergeHeaders(mw.headers, h.headers)),
                gate |-> mw.decision, authSteps |-> mw.authSteps]
    /\ db' = h.db
    /\ op' = [handler |-> handler, id |-> id, body |-> body, details |-> h.details,
              data |-> h.data, rows |-> h.rows, dbCalls |-> h.dbCalls,
              before |-> db, invalidated |-> h.invalidated,
              cacheError |-> h.cacheError]

\* Values the request bodies are made of.
GoodSlug == Str(<<"m", "y", "-", "a", "p", "p">>)
BadSlug ==
    Str(<<"U", "P", "P", "E", "R", "C", "A", "S", "E", " ", "N", "O", "T", " ",
          "V", "A", "L", "I", "D">>)
GoodI18n == I18n("Portfolio", "Portafolio")
BadI18n == I18n("", "Portafolio")
GoodUrl == Str(<<"https:", "//github.com/alecam">>)
BadUrl == Str(<<"not a url">>)
GoodEmail == Str(<<"admin", "@", "alecam.dev">>)
BadEmail == Str(<<"not-an-email">>)
GoodName == Str(<<"A", "l", "e">>)
GoodLocation == Str(<<"M", "a", "d", "r", "i", "d">>)
GoodMessage == Str(<<"H", "e", "l", "l", "o", " ", "t", "h", "e", "r", "e">>)
ShortMessage == Str(<<"H", "i">>)
GoodImage == Str(<<"/", "c", ".", "p", "n", "g">>)

\* A body: the listed keys, every other key absent.
Body(keys, assigned) ==
    [f \in keys |-> IF f \in DOMAIN assigned THEN assigned[f] ELSE Undefined]

\* Undeclared keys a body may carry.
Extras ==
    { NoData,
      ("id" :> Str(<<"forged-id">>)) @@ ("createdAt" :> Str(<<"1999-01-01">>)) }

\* At most one of the three URL keys is present in a body typed by hand.
UrlEdits ==
    { NoData }
    \cup { f :> v : f \in UrlFields, v \in {Null, EmptyString, GoodUrl, BadUrl} }

ProjectBodies ==
    { Body(ProjectColumns,
           ("slug" :> s) @@ ("title" :> t) @@ ("published" :> p) @@ u @@ x) :
        s \in {Undefined, GoodSlug, BadSlug},
        t \in {Undefined, GoodI18n, BadI18n},
        p \in {Undefined, JsTrue, JsFalse},
        u \in UrlEdits,
        x \in Extras }

CertificationBodies ==
    { Body(CertificationColumns,
           ("title" :> t) @@ ("issuer" :> i) @@ ("imageUrl" :> m)
           @@ ("credentialUrl" :> c) @@ ("published" :> p) @@ x) :
        t \in {Undefined, GoodI18n, BadI18n},
        i \in {GoodI18n, BadI18n},
        m \in {GoodImage, EmptyString},
        c \in {Undefined, EmptyString, GoodUrl, BadUrl},
        p \in {Undefined, JsTrue, JsFalse},
        x \in Extras }

AboutBodies ==
    { Body(AboutColumns,
           ("title" :> t) @@ ("shortBio" :> b) @@ ("location" :> l)
           @@ ("email" :> e) @@ x) :
        t \in {GoodI18n, BadI18n},
        b \in {Undefined, Null, GoodI18n, BadI18n},
        l \in {Undefined, Null, GoodLocation},
        e \in {Undefined, Null, GoodEmail, BadEmail},
        x \in Extras }

ContactBodies ==
    { Body(MessageColumns,
           ("name" :> n) @@ ("email" :> e) @@ ("subject" :> s) @@ ("message" :> m)
           @@ ("status" :> st)) :
        n \in {GoodName, EmptyString},
        e \in {GoodEmail, BadEmail},
        s \in {Undefined, GoodName},
        m \in {GoodMessage, ShortMessage},
        st \in {Undefined, Str(<<"READ">>)} }

MessageStatusBodies ==
    { Body(MessageColumns, "status" :> st) :
        st \in MessageStatuses \cup {Undefined, Str(<<"DONE">>)} }

\* The identifier the database generates for a new row.
NewId(ids, rows) == CHOOSE id \in ids : WhereId(rows, id) = {}

\* POST /api/admin/projects
CreateProject ==
    /\ Idle
    /\ CountRows(db) < MaxRows
    /\ \E token \in TokensToSend :
         LET r == StoreRequest(PathAdminProjects, "POST", token)
             mw == GateOf(r, clock)
         IN  IF GateStops(mw) THEN Refused(r, mw)
             ELSE \E body \in ProjectBodies :
                    Answered(r, mw, "ProjectPOST", "", body,
                             ProjectPOST(r, clock, body,
                                         NewId(ProjectIds, db.projects), db))
    /\ UNCHANGED <<inflight, nodeEnv, nextConfigHeaders, jwtSecretEnv,
                 clock, ticks, issued, cookie>>

\* PATCH /api/admin/projects/[id]
UpdateProject ==
    /\ Idle
    /\ \E token \in TokensToSend, id \in ProjectIds :
         LET r == StoreRequest(ItemPath(PathAdminProjects, id), "PATCH", token)
             mw == GateOf(r, clock)
         IN  IF GateStops(mw) THEN Refused(r, mw)
             ELSE \E body \in ProjectBodies :
                    Answered(r, mw, "ProjectPATCH", id, body,
                             ProjectPATCH(r, clock, id, body, db))
    /\ UNCHANGED <<inflight, nodeEnv, nextConfigHeaders, jwtSecretEnv,
                 clock, ticks, issued, cookie>>

\* DELETE /api/admin/projects/[id]
DeleteProject ==
    /\ Idle
    /\ \E token \in TokensToSend, id \in ProjectIds :
         LET r == StoreRequest(ItemPath(PathAdminProjects, id), "DELETE", token)
             mw == GateOf(r, clock)
         IN  IF GateStops(mw) THEN Refused(r, mw)
             ELSE Answered(r, mw, "ProjectDELETE", id, NoData,
                           ProjectDELETE(r, clock, id, db))
    /\ UNCHANGED <<inflight, nodeEnv, nextConfigHeaders, jwtSecretEnv,
                 clock, ticks, issued, cookie>>

\* POST /api/admin/certifications
CreateCertification ==
    /\ Idle
    /\ CountRows(db) < MaxRows
    /\ \E token \in TokensToSend :
         LET r == StoreRequest(PathAdminCertifications, "POST", token)
             mw == GateOf(r, clock)
         IN  IF GateStops(mw) THEN Refused(r, mw)
             ELSE \E body \in CertificationBodies, revalidate \in RevalidateOutcomes :
                    Answered(r, mw, "CertificationPOST", "", body,
                             CertificationPOST(r, clock, body,
                                               NewId(CertificationIds,
                                                     db.certifications), db,
                                               revalidate))
    /\ UNCHANGED <<inflight, nodeEnv, nextConfigHeaders, jwtSecretEnv,
                 clock, ticks, issued, cookie>>

\* PATCH /api/admin/certifications/[id]
UpdateCertification ==
    /\ Idle
    /\ \E token \in TokensToSend, id \in CertificationIds :
         LET r == StoreRequest(ItemPath(PathAdminCertifications, id), "PATCH", token)
             mw == GateOf(r, clock)
         IN  IF GateStops(mw) THEN Refused(r, mw)
             ELSE \E body \in CertificationBodies :
                    Answered(r, mw, "CertificationPATCH", id, body,
                             CertificationPATCH(r, clock, id, body, db))
    /\ UNCHANGED <<inflight, nodeEnv, nextConfigHeaders, jwtSecretEnv,
                 clock, ticks, issued, cookie>>

\* DELETE /api/admin/certifications/[id]
DeleteCertification ==
    /\ Idle
    /\ \E token \in TokensToSend, id \in CertificationIds :
         LET r == StoreRequest(ItemPath(PathAdminCertifications, id), "DELETE", token)
             mw == GateOf(r, clock)
         IN  IF GateStops(mw) THEN Refused(r, mw)
             ELSE Answered(r, mw, "CertificationDELETE", id, NoData,
                           CertificationDELETE(r, clock, id, db))
    /\ UNCHANGED <<inflight, nodeEnv, nextConfigHeaders, jwtSecretEnv,
                 clock, ticks, issued, cookie>>

\* handleTogglePublished of the dashboard: PATCH the item's endpoint with
\* { ...item, published: !item.published }, the browser's cookie attached.
TogglePublished ==
    /\ Idle
    /\ \E type \in {"project", "certification"} :
         \E item \in IF type = "project" THEN db.projects ELSE db.certifications :
           LET id == item["id"].v[1]
               endpoint == IF type = "project"
                           THEN ItemPath(PathAdminProjects, id)
                           ELSE ItemPath(PathAdminCertifications, id)
               body == [item EXCEPT !["published"] = JsNot(@)]
               r == StoreRequest(endpoint, "PATCH", cookie)
               mw == GateOf(r, clock)
           IN  IF GateStops(mw) THEN Refused(r, mw)
               ELSE IF type = "project"
               THEN Answered(r, mw, "ProjectPATCH", id, body,
                             ProjectPATCH(r, clock, id, body, db))
               ELSE Answered(r, mw, "CertificationPATCH", id, body,
                             CertificationPATCH(r, clock, id, body, db))
    /\ UNCHANGED <<inflight, nodeEnv, nextConfigHeaders, jwtSecretEnv,
                 clock, ticks, issued, cookie>>

\* PUT /api/admin/about
PutAbout ==
    /\ Idle
    /\ db.about # {} \/ CountRows(db) < MaxRows
    /\ \E token \in TokensToSend :
         LET r == StoreRequest(PathAdminAbout, "PUT", token)
             mw == GateOf(r, clock)
         IN  IF GateStops(mw) THEN Refused(r, mw)
             ELSE \E body \in AboutBodies :
                    Answered(r, mw, "AboutPUT", "", body,
                             AboutPUT(r, clock, body, NewId(AboutIds, db.about), db))
    /\ UNCHANGED <<inflight, nodeEnv, nextConfigHeaders, jwtSecretEnv,
                 clock, ticks, issued, cookie>>

\* POST /api/contact, from the public site: no cookie
SubmitContact ==
    /\ Idle
    /\ CountRows(db) < MaxRows
    /\ LET r == StoreRequest(PathContact, "POST", NoCookie)
           mw == GateOf(r, clock)
       IN  IF GateStops(mw) THEN Refused(r, mw)
           ELSE \E body \in ContactBodies :
                  Answered(r, mw, "ContactSubmit", "", body,
                           ContactSubmit(r, body, NewId(MessageIds, db.messages), db))
    /\ UNCHANGED <<inflight, nodeEnv, nextConfigHeaders, jwtSecretEnv,
                 clock, ticks, issued, cookie>>

\* PATCH /api/admin/contact/[id]
UpdateMessage ==
    /\ Idle
    /\ \E token \in TokensToSend, id \in MessageIds :
         LET r == StoreRequest(ItemPath(PathAdminContact, id), "PATCH", token)
             mw == GateOf(r, clock)
         IN  IF GateStops(mw) THEN Refused(r, mw)
             ELSE \E body \in MessageStatusBodies :
                    Answered(r, mw, "MessagePATCH", id, body,
                             MessagePATCH(r, clock, id, body, db))
    /\ UNCHANGED <<inflight, nodeEnv, nextConfigHeaders, jwtSecretEnv,
                 clock, ticks, issued, cookie>>

\* DELETE /api/admin/contact/[id]
DeleteMessage ==
    /\ Idle
    /\ \E token \in TokensToSend, id \in MessageIds :
         LET r == StoreRequest(ItemPath(PathAdminContact, id), "DELETE", token)
             mw == GateOf(r, clock)
         IN  IF GateStops(mw) THEN Refused(r, mw)
             ELSE Answered(r, mw, "MessageDELETE", id, NoData,
                           MessageDELETE(r, clock, id, db))
    /\ UNCHANGED <<inflight, nodeEnv, nextConfigHeaders, jwtSecretEnv,
                 clock, ticks, issued, cookie>>

\* GET /dashboard with any cookie.  The page is a client component: rendering
\* it makes no database call.
OpenDashboard ==
    /\ Idle
    /\ \E token \in TokensToSend :
         LET r == StoreRequest(PathDashboard, "GET", token)
             mw == GateOf(r, clock)
         IN  IF GateStops(mw) THEN Refused(r, mw)
             ELSE Answered(r, mw, "DashboardPage", "", NoData,
                           Outcome(Page.status, Page.body, Page.headers, {}, NoData,
                                   {}, db, 0))
    /\ UNCHANGED <<inflight, nodeEnv, nextConfigHeaders, jwtSecretEnv,
                 clock, ticks, issued, cookie>>

\* GET /api/projects, from the public site
ListProjects ==
    /\ Idle
    /\ LET r == StoreRequest(PathProjects, "GET", NoCookie)
           mw == GateOf(r, clock)
       IN  IF GateStops(mw) THEN Refused(r, mw)
           ELSE Answered(r, mw, "ProjectsList", "", NoData, ProjectsList(r, db))
    /\ UNCHANGED <<inflight, nodeEnv, nextConfigHeaders, jwtSecretEnv,
                 clock, ticks, issued, cookie>>

\* GET /api/projects/[id]: the [id] segment is an identifier or a slug.
GetProject ==
    /\ Idle
    /\ \E param \in { <<id>> : id \in ProjectIds } \cup {GoodSlug.v} :
         LET r == StoreRequest(PathProjects \o <<"/">> \o param, "GET", NoCookie)
             mw == GateOf(r, clock)
         IN  IF GateStops(mw) THEN Refused(r, mw)
             ELSE \E found \in FindFirst(ProjectDetailMatches(param, db)) :
                    Answered(r, mw, "ProjectDetail", param[1], NoData,
                             ProjectDetail(r, found, db))
    /\ UNCHANGED <<inflight, nodeEnv, nextConfigHeaders, jwtSecretEnv,
                 clock, ticks, issued, cookie>>

\* GET /api/certifications, from the public site
ListCertifications ==
    /\ Idle
    /\ LET r == StoreRequest(PathCertifications, "GET", NoCookie)
           mw == GateOf(r, clock)
       IN  IF GateStops(mw) THEN Refused(r, mw)
           ELSE Answered(r, mw, "CertificationsList", "", NoData,
                         CertificationsList(r, db))
    /\ UNCHANGED <<inflight, nodeEnv, nextConfigHeaders, jwtSecretEnv,
                 clock, ticks, issued, cookie>>

\* GET /api/certifications/[id], served by either revision of the route
GetCertification ==
    /\ Idle
    /\ \E id \in CertificationIds, revision \in CertificationDetailRevisions :
         LET r == StoreRequest(ItemPath(PathCertifications, id), "GET", NoCookie)
             mw == GateOf(r, clock)
         IN  IF GateStops(mw) THEN Refused(r, mw)
             ELSE \E found \in FindFirst(CertificationDetailMatches(revision, id, db)) :
                    Answered(r, mw, "CertificationDetail", id, NoData,
                             CertificationDetail(r, revision, found, db))
    /\ UNCHANGED <<inflight, nodeEnv, nextConfigHeaders, jwtSecretEnv,
                 clock, ticks, issued, cookie>>

-----------------------------------------------------------------------------
(* POST /api/admin/upload *)

PathAdminUpload == <<"/", "api", "/", "admin", "/", "upload">>

ALLOWED_TYPES == { "image/jpeg", "image/jpg", "image/png", "image/webp", "image/gif" }
MAX_FILE_SIZE == 5 * 1024 * 1024

\* formData.get('file'): absent, or a file of a type and a size
NoFile == [type |-> "", size |-> 0]
Files ==
    { NoFile,
      [type |-> "image/png", size |-> 1024],
      [type |-> "application/pdf", size |-> 1024],
      [type |-> "image/png", size |-> MAX_FILE_SIZE + 1] }

\* The handler checks the session itself, then the file; fs is what mkdir
\* and writeFile did.
UploadPOST(r, now, file, fs, d) ==
    IF ~isAdmin(r, now) THEN Refusal(401, Failure("Unauthorized"), d, 0)
    ELSE IF file = NoFile THEN Refusal(400, Failure("No file provided"), d, 0)
    ELSE IF file.type \notin ALLOWED_TYPES
    THEN Refusal(400,
                 Failure("Invalid file type. Only images are allowed (JPEG, PNG, WebP, GIF)"),
                 d, 0)
    ELSE IF file.size > MAX_FILE_SIZE
    THEN Refusal(400, Failure("File too large. Maximum size is 5MB"), d, 0)
    ELSE IF fs = "throws" THEN Refusal(500, Failure("Failed to upload file"), d, 0)
    ELSE Refusal(200, JsonBody({"success", "data"}, "true", ""), d, 0)

UploadFile ==
    /\ Idle
    /\ \E token \in TokensToSend :
         LET r == StoreRequest(PathAdminUpload, "POST", token)
             mw == GateOf(r, clock)
         IN  IF GateStops(mw) THEN Refused(r, mw)
             ELSE \E file \in Files, fs \in {"ok", "throws"} :
                    Answered(r, mw, "UploadPOST", "", NoData,
                             UploadPOST(r, clock, file, fs, db))
    /\ UNCHANGED <<inflight, nodeEnv, nextConfigHeaders, jwtSecretEnv,
                   clock, ticks, issued, cookie>>

\* The service with the database attached, after an administrator and an
\* account of another role have logged in and the administrator's browser
\* holds its cookie.
InitStore ==
    /\ nodeEnv = "production"
    /\ nextConfigHeaders = FALSE
    /\ jwtSecretEnv = "configured-secret"
    /\ clock = 0
    /\ ticks = 0
    /\ issued = { generateToken(JWTPayload(account), 0) : account \in Accounts }
    /\ cookie = generateToken(JWTPayload(AccountOf("ADMIN")), 0)
    /\ req = NoRequest
    /\ resp = NoResponse
    /\ db = EmptyDb
    /\ op = NoOp
    /\ inflight = NoCalls

NextStore ==
    \/ CreateProject \/ UpdateProject \/ DeleteProject
    \/ CreateCertification \/ UpdateCertification \/ DeleteCertification
    \/ TogglePublished \/ PutAbout \/ UploadFile
    \/ SubmitContact \/ UpdateMessage \/ DeleteMessage
    \/ OpenDashboard
    \/ ListProjects \/ GetProject \/ ListCertifications \/ GetCertification
    \/ Complete

SpecStore == InitStore /\ [][NextStore]_vars

-----------------------------------------------------------------------------
(* The admin list endpoints: page and limit of the query string *)

\* A JavaScript number: an integer or NaN.
Num(n) == [nan |-> FALSE, n |-> n]
NaN == [nan |-> TRUE, n |-> 0]

Digits == <<"0", "1", "2", "3", "4", "5", "6", "7", "8", "9">>
IsDigit(c) == \E i \in 1..10 : Digits[i] = c
DigitValue(c) == (CHOOSE i \in 1..10 : Digits[i] = c) - 1

\* The value of the longest run of digits chars starts with, after acc.
RECURSIVE LeadingDigits(_, _)
LeadingDigits(chars, acc) ==
    IF chars = <<>> \/ ~IsDigit(Head(chars)) THEN acc
    ELSE LeadingDigits(Tail(chars), acc * 10 + DigitValue(Head(chars)))

\* parseInt(string): an optional sign, then the leading digits; whatever
\* follows them is ignored, and a string with no leading digit gives NaN.
parseInt(chars) ==
    LET negative == chars # <<>> /\ Head(chars) = "-"
        signed == chars # <<>> /\ Head(chars) \in {"-", "+"}
        rest == IF signed THEN Tail(chars) ELSE chars
    IN  IF rest = <<>> \/ ~IsDigit(Head(rest)) THEN NaN
        ELSE Num((IF negative THEN -1 ELSE 1) * LeadingDigits(rest, 0))

\* searchParams.get(name) || fallback: an absent or empty parameter gets the
\* fallback.
GetOr(query, name, fallback) ==
    IF query[name] \in {Null, EmptyString} THEN fallback ELSE query[name].v

\* (page - 1) * limit
SkipOf(page, limit) ==
    IF page.nan \/ limit.nan THEN NaN ELSE Num((page.n - 1) * limit.n)

\* What prisma.<table>.findMany({ skip, take }) does with its arguments: a
\* negative skip is rejected; a negative take reads from the end of the list
\* and is accepted; NaN is no integer, and the client either rejects it or
\* drops the argument.
FindManyOutcomes(skip, take) ==
    IF ~skip.nan /\ skip.n < 0 THEN {"throws"}
    ELSE IF skip.nan \/ take.nan THEN {"throws", "ok"}
    ELSE {"ok"}

\* The rows of one page: none from skip on when skip reaches the count,
\* otherwise as many as take allows.
PageSize(count, skip, take) ==
    LET from == IF skip.nan THEN 0 ELSE skip.n
        left == IF from >= count THEN 0 ELSE count - from
        most == IF take.nan THEN left
                ELSE IF take.n < 0 THEN -take.n ELSE take.n
    IN  IF most < left THEN most ELSE left

PagesOf(rows, skip, take) ==
    { page \in SUBSET rows : Cardinality(page) = PageSize(Cardinality(rows), skip, take) }

AdminLists == { "AdminProjectsGET", "AdminCertificationsGET", "AdminContactGET" }

ListFallbackLimit(handler) ==
    IF handler = "AdminContactGET" THEN <<"1", "0">> ELSE <<"5", "0">>

ListFailure(handler) ==
    CASE handler = "AdminProjectsGET" -> Failure("Failed to fetch projects")
      [] handler = "AdminCertificationsGET" -> Failure("Failed to fetch certifications")
      [] handler = "AdminContactGET" -> ErrorOnly("Failed to fetch messages")

ListSuccess(handler) ==
    IF handler = "AdminContactGET" THEN JsonBody({"messages", "pagination"}, "", "")
    ELSE JsonBody({"success", "data", "pagination"}, "true", "")

ListTable(handler, d) ==
    CASE handler = "AdminProjectsGET" -> d.projects
      [] handler = "AdminCertificationsGET" -> d.certifications
      [] handler = "AdminContactGET" -> d.messages

\* GET /api/admin/projects, /api/admin/certifications and /api/admin/contact:
\* the three handlers differ in the fallback limit, the table and the shape
\* of the body.  io is what findMany did and rows the page it returned.
AdminList(handler, r, now, query, io, rows, d) ==
    IF ~isAdmin(r, now)
    THEN Refusal(401, IF handler = "AdminContactGET" THEN ErrorOnly("Unauthorized")
                      ELSE Failure("Unauthorized"), d, 0)
    ELSE IF io = "throws" THEN Refusal(500, ListFailure(handler), d, 2)
    ELSE Outcome(200, ListSuccess(handler), {}, {}, NoData, rows, d, 2)

\* The arguments the handler hands to findMany.
ListArguments(handler, query) ==
    LET page == parseInt(GetOr(query, "page", <<"1">>))
        limit == parseInt(GetOr(query, "limit", ListFallbackLimit(handler)))
    IN  [page |-> page, limit |-> limit, skip |-> SkipOf(page, limit), take |-> limit]

\* Query strings: page and limit absent, in range, out of range, not a number.
PageParameters ==
    { Null, Str(<<"1">>), Str(<<"2">>), Str(<<"0">>), Str(<<"-", "1">>),
      Str(<<"a", "b", "c">>) }
LimitParameters ==
    { Null, Str(<<"1">>), Str(<<"1", "0", "0">>), Str(<<"0">>), Str(<<"-", "5">>),
      Str(<<"1", "0", "1">>), Str(<<"2", "x">>), Str(<<"a", "b", "c">>) }
Queries == { ("page" :> p) @@ ("limit" :> l) : p \in PageParameters, l \in LimitParameters }

ListPath(handler) ==
    CASE handler = "AdminProjectsGET" -> PathAdminProjects
      [] handler = "AdminCertificationsGET" -> PathAdminCertifications
      [] handler = "AdminContactGET" -> PathAdminContact

\* One of the three admin list requests, with any cookie and any query.
ListRequest(handler) ==
    \E token \in TokensToSend :
      LET r == StoreRequest(ListPath(handler), "GET", token)
          mw == GateOf(r, clock)
      IN  IF GateStops(mw) THEN Refused(r, mw)
          ELSE \E query \in Queries :
                 LET args == ListArguments(handler, query)
                 IN  \E io \in FindManyOutcomes(args.skip, args.take) :
                     \E rows \in PagesOf(ListTable(handler, db), args.skip, args.take) :
                       Answered(r, mw, handler, "", query,
                                AdminList(handler, r, clock, query, io,
                                          IF io = "ok" THEN rows ELSE {}, db))

\* GET /api/admin/projects
ListAdminProjects ==
    /\ Idle
    /\ ListRequest("AdminProjectsGET")
    /\ UNCHANGED <<inflight, nodeEnv, nextConfigHeaders, jwtSecretEnv,
                 clock, ticks, issued, cookie>>

\* GET /api/admin/certifications
ListAdminCertifications ==
    /\ Idle
    /\ ListRequest("AdminCertificationsGET")
    /\ UNCHANGED <<inflight, nodeEnv, nextConfigHeaders, jwtSecretEnv,
                 clock, ticks, issued, cookie>>

\* GET /api/admin/contact
ListAdminMessages ==
    /\ Idle
    /\ ListRequest("AdminContactGET")
    /\ UNCHANGED <<inflight, nodeEnv, nextConfigHeaders, jwtSecretEnv,
                 clock, ticks, issued, cookie>>

NextLists ==
    \/ CreateProject \/ CreateCertification \/ SubmitContact
    \/ ListAdminProjects \/ ListAdminCertifications \/ ListAdminMessages
    \/ Complete

SpecLists == InitStore /\ [][NextLists]_vars

-----------------------------------------------------------------------------
(* Handlers running side by side.  A handler awaits its read, then awaits   *)
(* its write; between the two awaits the other invocations run.  Each       *)
(* invocation occupies a slot: Begin* runs the handler up to the answer of  *)
(* its read, Write* is its persistence call and its response, Release       *)
(* frees the slot once the response is delivered.                           *)

OtherSlug == Str(<<"b", "l", "o", "g">>)

RaceProjectBodies ==
    { Body(ProjectColumns, ("slug" :> s) @@ ("title" :> t)) :
        s \in {Undefined, GoodSlug, OtherSlug}, t \in {Undefined, GoodI18n} }

RaceAboutBodies ==
    { Body(AboutColumns, ("title" :> t) @@ ("location" :> l)) :
        t \in {GoodI18n, BadI18n}, l \in {Undefined, GoodLocation} }

\* CREATE UNIQUE INDEX "projects_slug_key" ON "projects"("slug"): the rows
\* other than the one written that already hold the slug the write brings.
projects_slug_key(rows, id, data) ==
    { row \in rows : /\ Written(data, "slug")
                     /\ row["slug"] = Stored(data["slug"])
                     /\ row["id"] # Str(<<id>>) }

SlugRefusal == Failure("A project with this slug already exists")

\* The invocation in slot answered.
Respond(slot, status, error, conflict) ==
    inflight' = [inflight EXCEPT ![slot].pc = "done", ![slot].status = status,
                                 ![slot].error = error, ![slot].conflict = conflict]

\* The invocation in slot got the answer of its read and goes on to write.
Proceed(slot, handler, id, body, data, seen) ==
    inflight' = [inflight EXCEPT ![slot] =
                   [NoCall EXCEPT !.pc = "checked", !.handler = handler, !.id = id,
                                  !.body = body, !.data = data, !.seen = seen]]

\* The invocation in slot answered before any write.
Stopped(slot, handler, id, body, h) ==
    inflight' = [inflight EXCEPT ![slot] =
                   [NoCall EXCEPT !.pc = "done", !.handler = handler, !.id = id,
                                  !.body = body, !.status = h.status,
                                  !.error = h.body,
                                  !.conflict = (h.body = SlugRefusal)]]

\* POST /api/admin/projects up to the answer of findUnique({ where: { slug } })
BeginCreateProject ==
    /\ \E slot \in Slots, body \in RaceProjectBodies :
         LET r == StoreRequest(PathAdminProjects, "POST", cookie)
             h == ProjectPOST(r, clock, body, NewId(ProjectIds, db.projects), db)
         IN  /\ inflight[slot].pc = "idle"
             /\ ~GateStops(GateOf(r, clock))
             /\ IF h.status = 201
                THEN Proceed(slot, "ProjectPOST", "", body, h.data, {})
                ELSE Stopped(slot, "ProjectPOST", "", body, h)
    /\ UNCHANGED <<nodeEnv, nextConfigHeaders, jwtSecretEnv, clock, ticks, issued,
                   cookie, req, resp, db, op>>

\* prisma.project.create({ data }) and the response.  A slug another row
\* holds by now violates the unique index: the call rejects with P2002 and
\* the catch block answers.
WriteCreateProject ==
    /\ \E slot \in Slots :
         LET call == inflight[slot]
             taken == projects_slug_key(db.projects, "", call.data)
         IN  /\ call.pc = "checked"
             /\ call.handler = "ProjectPOST"
             /\ IF taken # {}
                THEN /\ Respond(slot, CatchStatus("P2002"),
                                Failure("Failed to create project"), TRUE)
                     /\ db' = db
                ELSE /\ Respond(slot, 201, JsonBody({"success", "data"}, "true", ""),
                                FALSE)
                     /\ db' = [db EXCEPT !.projects =
                                 @ \cup {prismaCreate(ProjectColumns,
                                                      NewId(ProjectIds, db.projects),
                                                      call.data)}]
    /\ UNCHANGED <<nodeEnv, nextConfigHeaders, jwtSecretEnv, clock, ticks, issued,
                   cookie, req, resp, op>>

\* PATCH /api/admin/projects/[id] up to the answer of findUnique
BeginUpdateProject ==
    /\ \E slot \in Slots, id \in ProjectIds, body \in RaceProjectBodies :
         LET r == StoreRequest(ItemPath(PathAdminProjects, id), "PATCH", cookie)
             h == ProjectPATCH(r, clock, id, body, db)
         IN  /\ inflight[slot].pc = "idle"
             /\ ~GateStops(GateOf(r, clock))
             /\ IF h.status \in {400, 401}
                THEN Stopped(slot, "ProjectPATCH", id, body, h)
                ELSE Proceed(slot, "ProjectPATCH", id, body, h.data, {})
    /\ UNCHANGED <<nodeEnv, nextConfigHeaders, jwtSecretEnv, clock, ticks, issued,
                   cookie, req, resp, db, op>>

\* prisma.project.update({ where: { id }, data }) and the response
WriteUpdateProject ==
    /\ \E slot \in Slots :
         LET call == inflight[slot]
             found == WhereId(db.projects, call.id)
             taken == projects_slug_key(db.projects, call.id, call.data)
         IN  /\ call.pc = "checked"
             /\ call.handler = "ProjectPATCH"
             /\ IF found = {}
                THEN /\ Respond(slot, CatchStatus("P2025"),
                                Failure("Project not found"), FALSE)
                     /\ db' = db
                ELSE IF taken # {}
                THEN /\ Respond(slot, CatchStatus("P2002"),
                                Failure("Failed to update project"), TRUE)
                     /\ db' = db
                ELSE /\ Respond(slot, 200, JsonBody({"success", "data"}, "true", ""),
                                FALSE)
                     /\ db' = [db EXCEPT !.projects =
                                 (@ \ found)
                                 \cup { prismaUpdate(old, call.data) : old \in found }]
    /\ UNCHANGED <<nodeEnv, nextConfigHeaders, jwtSecretEnv, clock, ticks, issued,
                   cookie, req, resp, op>>

\* PUT /api/admin/about up to the answer of prisma.about.findFirst()
BeginPutAbout ==
    /\ \E slot \in Slots, body \in RaceAboutBodies, seen \in FindFirst(db.about) :
         LET r == StoreRequest(PathAdminAbout, "PUT", cookie)
             h == AboutPUT(r, clock, body, NewId(AboutIds, db.about),
                           [db EXCEPT !.about = seen])
         IN  /\ inflight[slot].pc = "idle"
             /\ ~GateStops(GateOf(r, clock))
             /\ IF h.status = 200
                THEN Proceed(slot, "AboutPUT", "", body, h.data, seen)
                ELSE Stopped(slot, "AboutPUT", "", body, h)
    /\ UNCHANGED <<nodeEnv, nextConfigHeaders, jwtSecretEnv, clock, ticks, issued,
                   cookie, req, resp, db, op>>

\* if (existing) prisma.about.update({ where: { id: existing.id }, data })
\* else prisma.about.create({ data }), on what findFirst had answered
WritePutAbout ==
    /\ \E slot \in Slots :
         LET call == inflight[slot]
             existing == { row \in db.about :
                             \E old \in call.seen : row["id"] = old["id"] }
             r == StoreRequest(PathAdminAbout, "PUT", cookie)
             h == AboutPUT(r, clock, call.body, NewId(AboutIds, db.about),
                           [db EXCEPT !.about = existing])
         IN  /\ call.pc = "checked"
             /\ call.handler = "AboutPUT"
             /\ Respond(slot, h.status, h.body, FALSE)
             /\ db' = [db EXCEPT !.about = (@ \ existing) \cup h.rows]
    /\ UNCHANGED <<nodeEnv, nextConfigHeaders, jwtSecretEnv, clock, ticks, issued,
                   cookie, req, resp, op>>

\* The response is delivered; the slot takes the next request.
Release ==
    /\ \E slot \in Slots :
         /\ inflight[slot].pc = "done"
         /\ inflight' = [inflight EXCEPT ![slot] = NoCall]
    /\ UNCHANGED <<nodeEnv, nextConfigHeaders, jwtSecretEnv, clock, ticks, issued,
                   cookie, req, resp, db, op>>

NextRace ==
    \/ BeginCreateProject \/ WriteCreateProject
    \/ BeginUpdateProject \/ WriteUpdateProject
    \/ BeginPutAbout \/ WritePutAbout
    \/ Release

SpecRace == InitStore /\ [][NextRace]_vars

-----------------------------------------------------------------------------
(* Vocabulary of the properties *)

Pending == ~Idle

UnderApiAdmin(path) == StartsWith(path, PathApiAdmin)
StartsWithDashboard(path) == StartsWith(path, PathDashboard)
\* /dashboard itself or a path below /dashboard/
UnderDashboard(path) == MatchesPattern(path, PathDashboard)

\* No auth-token cookie, or a token that fails verification at the time of
\* the request.
NoValidSession(r) ==
    \/ r.token.kind \in {"absent", "empty"}
    \/ r.token.kind = "malformed"
    \/ r.token.key # JWT_SECRET
    \/ r.token.exp <= clock \div 1000

\* A validly signed, unexpired token.
ValidSession(r) ==
    /\ r.token.kind = "jwt"
    /\ r.token.key = JWT_SECRET
    /\ clock \div 1000 < r.token.exp

RedirectedToLogin == resp.status = 307 /\ resp.location = PathLogin /\ resp.body = NoBody
JsonError ==
    /\ resp.body.type = "json"
    /\ "error" \in resp.body.keys
    /\ resp.status \in {401, 403}
    /\ resp.location = <<>>

-----------------------------------------------------------------------------
(* C1 *)

\* C1 as stated: every request whose path starts with /dashboard or
\* /api/admin, with any method, that has no valid session is answered 401
\* (under /api/admin) or a redirect to /login (under /dashboard), by the gate
\* itself, and never 200.
C1_AnyMethodAnyPrefixDenied ==
    (Pending /\ NoValidSession(req)
       /\ (StartsWithDashboard(req.path) \/ UnderApiAdmin(req.path)))
    => /\ IF UnderApiAdmin(req.path) THEN resp.status = 401 ELSE RedirectedToLogin
       /\ resp.by = "middleware"
       /\ resp.status # 200

\* C1 amended: a request without a valid session is answered 401 by the gate
\* when its path starts with /api/admin and its method is not OPTIONS, and
\* redirected to /login by the gate when its path is /dashboard or below
\* /dashboard/ (any method); it reaches no handler and is never answered 200.
C1_GateDeniesWithoutSession ==
    (Pending /\ NoValidSession(req)
       /\ \/ UnderDashboard(req.path)
          \/ (UnderApiAdmin(req.path) /\ req.method # "OPTIONS"))
    => /\ IF UnderApiAdmin(req.path) THEN resp.status = 401 ELSE RedirectedToLogin
       /\ resp.by = "middleware"
       /\ resp.status # 200

\* An expired token of the server on a dashboard sub-path is redirected, and
\* so on.
C1_Witness ==
    /\ Pending
    /\ req.token \in issued
    /\ NoValidSession(req)
    /\ req.path = PathDashboardSub
    /\ req.method = "POST"
    /\ RedirectedToLogin

-----------------------------------------------------------------------------
(* C2 *)

\* C2 as stated: a valid, unexpired token whose role is not ADMIN gets 403 on
\* every path under /api/admin, whatever the method.
C2_NonAdmin403AnyMethod ==
    (Pending /\ ValidSession(req) /\ req.token.role # "ADMIN"
       /\ UnderApiAdmin(req.path))
    => resp.status = 403

\* C2 amended: a valid, unexpired token whose role is not ADMIN gets 403 from
\* the gate on every path under /api/admin for every method except OPTIONS
\* (an OPTIONS request is answered 200 before any credential is looked at).
C2_NonAdmin403 ==
    (Pending /\ ValidSession(req) /\ req.token.role # "ADMIN"
       /\ UnderApiAdmin(req.path))
    => IF req.method = "OPTIONS"
       THEN resp.status = 200 /\ resp.authSteps = "none"
       ELSE resp.status = 403 /\ resp.by = "middleware"

C2_Witness ==
    /\ Pending
    /\ req.token \in issued
    /\ ValidSession(req)
    /\ req.token.role = "USER"
    /\ req.path = PathAdminProjects
    /\ req.method = "POST"
    /\ resp.status = 403

-----------------------------------------------------------------------------
(* C3 *)

\* A missing cookie, an invalid or expired token, or a wrong role.
AuthFailure(r) == NoValidSession(r) \/ r.token.role # "ADMIN"

\* C3 as stated: for the same authentication or authorization failure, a
\* request under /api/admin always gets a JSON error and never a redirect,
\* and a request under /dashboard always gets a redirect to /login and never
\* a JSON error.
C3_FamilyDecidesDenialShape ==
    (Pending /\ AuthFailure(req))
    => /\ UnderApiAdmin(req.path) => (JsonError /\ ~RedirectedToLogin)
       /\ UnderDashboard(req.path) => (RedirectedToLogin /\ ~JsonError)

\* C3 amended: for the same failure, a request under /api/admin never gets a
\* redirect and, unless its method is OPTIONS, always gets a JSON error (401
\* or 403); a request under /dashboard always gets a redirect to /login and
\* never a JSON error.  An OPTIONS request under /api/admin is answered 200
\* with no body, whatever its credentials.
C3_DenialShapeByFamily ==
    (Pending /\ AuthFailure(req))
    => /\ UnderApiAdmin(req.path)
          => /\ ~RedirectedToLogin
             /\ resp.status \notin {301, 302, 303, 307, 308}
             /\ IF req.method = "OPTIONS"
                THEN resp.status = 200 /\ resp.body = NoBody
                ELSE JsonError
       /\ UnderDashboard(req.path) => (RedirectedToLogin /\ ~JsonError)

\* The same failure (a malformed token) seen on the dashboard family.
C3_Witness ==
    /\ Pending
    /\ req.token = MalformedToken
    /\ req.path = PathDashboard
    /\ req.method = "GET"
    /\ RedirectedToLogin
    /\ resp.by = "middleware"

-----------------------------------------------------------------------------
(* C4 *)

PreflightSucceeds ==
    /\ resp.status \notin {401, 403}
    /\ ~RedirectedToLogin
    /\ resp.status \in {200, 204}
    /\ resp.authSteps = "none"
    /\ HeaderKeys(resp.headers) \subseteq CorsHeaderNames
    /\ resp.body = NoBody

\* C4 as stated: an OPTIONS request without a session cookie to any protected
\* path, under /api/admin or under /dashboard, succeeds: no 401, 403 or
\* redirect, no token read or verified, only CORS headers and no body.
C4_PreflightAnyProtectedPath ==
    (Pending /\ req.method = "OPTIONS" /\ req.token = NoCookie
       /\ (UnderApiAdmin(req.path) \/ UnderDashboard(req.path)))
    => PreflightSucceeds

\* C4 amended: an OPTIONS request without a session cookie to any path under
\* /api/admin succeeds (200, no token read or verified, only CORS headers, no
\* body); an OPTIONS request without a cookie to /dashboard or below it is
\* redirected to /login like any other method.
C4_AdminPreflight ==
    (Pending /\ req.method = "OPTIONS" /\ req.token = NoCookie)
    => /\ UnderApiAdmin(req.path) => (PreflightSucceeds /\ resp.by = "middleware")
       /\ UnderDashboard(req.path) => RedirectedToLogin

C4_Witness ==
    /\ Pending
    /\ req.method = "OPTIONS"
    /\ req.token = NoCookie
    /\ req.path = PathAdminProjects
    /\ resp.status = 200
    /\ <<ACAC, <<"true">>>> \in resp.headers

-----------------------------------------------------------------------------
(* C5 *)

\* The instant, in seconds, at which token t expires: its issued-at plus
\* seven days.
ExpirySeconds(t) == t.iat + 7 * 24 * 60 * 60

\* The millisecond clock is strictly before, or strictly after, that instant.
BeforeExpiry(t) == clock \div 1000 < ExpirySeconds(t)
AfterExpiry(t) ==
    \/ clock \div 1000 > ExpirySeconds(t)
    \/ (clock \div 1000 = ExpirySeconds(t) /\ clock % 1000 > 0)

GateProtected(r) ==
    UnderDashboard(r.path) \/ (UnderApiAdmin(r.path) /\ r.method # "OPTIONS")

\* C5: a token issued with issued-at T is accepted by verifyToken and by the
\* gate at every time before T + 7 days and rejected at every time after it;
\* this holds after any number of requests, so none of them extends it.
C5_SevenDayAbsoluteExpiry ==
    /\ \A t \in issued :
         /\ BeforeExpiry(t) => verifyToken(t, clock) = t
         /\ AfterExpiry(t) => verifyToken(t, clock) = NoCookie
    /\ (Pending /\ req.token \in issued /\ GateProtected(req))
       => /\ BeforeExpiry(req.token)
             => /\ resp.body.error # "Invalid token"
                /\ req.token.role = "ADMIN" => resp.gate = "next"
          /\ AfterExpiry(req.token)
             => /\ resp.by = "middleware"
                /\ IF UnderApiAdmin(req.path)
                   THEN resp.status = 401 /\ resp.body = ErrorOnly("Invalid token")
                   ELSE RedirectedToLogin

\* An ADMIN token presented after its expiry is refused by the gate.
C5_Witness ==
    /\ Pending
    /\ req.token \in issued
    /\ req.token.role = "ADMIN"
    /\ AfterExpiry(req.token)
    /\ req.path = PathAdminProjects
    /\ req.method = "GET"
    /\ resp.status = 401

-----------------------------------------------------------------------------
(* C6 *)

\* C6: token validity is stateless.  Whatever logins and logouts happened,
\* an ADMIN token issued earlier passes the gate on every protected request
\* made before its own expiry, also when the browser cookie has been deleted
\* or replaced by a newer token.
C6_StatelessTokens ==
    (Pending /\ req.token \in issued /\ req.token.role = "ADMIN"
       /\ BeforeExpiry(req.token) /\ GateProtected(req))
    => /\ resp.gate = "next"
       /\ resp.by # "middleware"
       /\ resp.status \notin {401, 403, 307}

\* After a logout, with two tokens issued, the older one still opens the
\* admin API.
C6_Witness ==
    /\ Pending
    /\ cookie = NoCookie
    /\ Cardinality(issued) = 2
    /\ req.token \in issued
    /\ req.token.role = "ADMIN"
    /\ \E t \in issued : t.iat > req.token.iat
    /\ req.path = PathAdminProjects
    /\ req.method = "GET"
    /\ req.io = "ok"
    /\ resp.status = 200

-----------------------------------------------------------------------------
(* C7 *)

SuccessEnvelope(body) == body.success = "true" /\ {"success", "data"} \subseteq body.keys
FailureEnvelope(body) ==
    /\ body.success = "false"
    /\ {"success", "error"} \subseteq body.keys
    /\ body.keys \subseteq {"success", "error", "details"}

\* C7: every JSON response, the gate's denials included, is {success: true,
\* data: ...} or {success: false, error, details?}; GET /api/admin/projects
\* without a cookie yields 401 {success: false, error: "Unauthorized"}.
C7_ResponseEnvelope ==
    Pending
    => /\ resp.body.type = "json"
          => SuccessEnvelope(resp.body) \/ FailureEnvelope(resp.body)
       /\ (req.path = PathAdminProjects /\ req.method = "GET"
             /\ req.token = NoCookie)
          => /\ resp.status = 401
             /\ resp.body = Failure("Unauthorized")

-----------------------------------------------------------------------------
(* C8 *)

\* Every origin some allow-list of the code names.
AllowListedOrigins ==
    PRODUCTION_ORIGINS \cup DEVELOPMENT_ORIGINS \cup MiddlewareAllowedOrigins

\* C8: a response carries Access-Control-Allow-Origin only when the request's
\* Origin is allow-listed, and then the value is exactly that origin: never
\* '*', never several origins, never present for another or no Origin.
C8_AllowOriginEchoesListedOrigin ==
    Pending
    => \A h \in resp.headers :
         h[1] = ACAO
         => /\ req.origin \in AllowListedOrigins
            /\ h[2] = <<req.origin>>

-----------------------------------------------------------------------------
(* C9 *)

IsPublicApiRoute(path) == StartsWith(path, PathApiSlash) /\ ~UnderApiAdmin(path)

\* The deployment whose next.config sets no headers, so that every CORS
\* header comes from the middleware and the handlers.
InitDynamicCors == Init /\ nextConfigHeaders = FALSE
SpecDynamicCors == InitDynamicCors /\ [][Next]_vars

\* C9: in production a request to a public API route from a local
\* development origin receives no Access-Control-Allow-Origin header; outside
\* production it receives that origin.
C9_DevOriginsOnlyOutsideProduction ==
    (Pending /\ IsPublicApiRoute(req.path) /\ req.origin \in DEVELOPMENT_ORIGINS)
    => IF nodeEnv = "production"
       THEN ACAO \notin HeaderKeys(resp.headers)
       ELSE <<ACAO, <<req.origin>>>> \in resp.headers

-----------------------------------------------------------------------------
(* C10 *)

\* Origin header values beyond those the requests of the model carry.
AnyOrigin ==
    Origins \cup AllowListedOrigins \cup {"http://localhost:5174", "null", "*"}

\* C10: on a public route the Origin header never decides whether the request
\* is served: the same request with any other Origin (or none) gets the same
\* status and body, from the same place.
C10_OriginNeverDecides ==
    (Pending /\ IsPublicApiRoute(req.path))
    => \A o \in AnyOrigin :
         LET other == Serve([req EXCEPT !.origin = o], clock, req.io)
         IN  /\ other.status = resp.status
             /\ other.body = resp.body
             /\ other.by = resp.by
             /\ other.location = resp.location

\* A request from an origin outside every list is served like any other.
C10_Witness ==
    /\ Pending
    /\ req.path = PathProjects
    /\ req.method = "GET"
    /\ req.origin = "https://evil.example"
    /\ req.io = "ok"
    /\ resp.status = 200
    /\ resp.body.success = "true"
    /\ ACAO \notin HeaderKeys(resp.headers)

-----------------------------------------------------------------------------
(* Vocabulary of the properties about stored data *)

\* The handler named h served the pending request.
Ran(h) == Pending /\ op.handler = h

\* The handlers that validate a body against a schema, their schema, the keys
\* it declares and a body it accepts.
ValidatedWrites ==
    { "ProjectPOST", "ProjectPATCH", "CertificationPOST", "CertificationPATCH",
      "AboutPUT", "ContactSubmit" }

SchemaOf(h, body) ==
    CASE h = "ProjectPOST" -> createProjectSchema(body)
      [] h = "ProjectPATCH" -> updateProjectSchema(body)
      [] h = "CertificationPOST" -> createCertificationSchema(body)
      [] h = "CertificationPATCH" -> updateCertificationSchema(body)
      [] h = "AboutPUT" -> updateAboutSchema(body)
      [] h = "ContactSubmit" -> createContactMessageSchema(body)

DeclaredFields(h) ==
    CASE h \in {"ProjectPOST", "ProjectPATCH"} -> ProjectFields
      [] h \in {"CertificationPOST", "CertificationPATCH"} -> CertificationFields
      [] h = "AboutPUT" -> AboutFields
      [] h = "ContactSubmit" -> ContactFields
      [] h = "MessagePATCH" -> {"status"}

AcceptedBody(h) ==
    CASE h \in {"ProjectPOST", "ProjectPATCH"}
           -> Body(ProjectColumns, ("slug" :> GoodSlug) @@ ("title" :> GoodI18n))
      [] h \in {"CertificationPOST", "CertificationPATCH"}
           -> Body(CertificationColumns,
                   ("title" :> GoodI18n) @@ ("issuer" :> GoodI18n)
                   @@ ("imageUrl" :> GoodImage))
      [] h = "AboutPUT" -> Body(AboutColumns, "title" :> GoodI18n)
      [] h = "ContactSubmit"
           -> Body(MessageColumns,
                   ("name" :> GoodName) @@ ("email" :> GoodEmail)
                   @@ ("message" :> GoodMessage))

\* The declared fields whose value in the body is invalid on its own: put
\* into a body that is otherwise accepted, the value makes the schema reject.
InvalidAlone(h, f, v) == ~SchemaOf(h, [AcceptedBody(h) EXCEPT ![f] = v]).success

\* The same, worked out once for the values the request bodies are made of.
BodyValues ==
    { Undefined, Null, EmptyString, JsTrue, JsFalse, GoodSlug, BadSlug, GoodI18n,
      BadI18n, GoodUrl, BadUrl, GoodEmail, BadEmail, GoodName, GoodLocation,
      GoodMessage, ShortMessage, GoodImage }

InvalidValues ==
    [h \in ValidatedWrites |->
       [f \in DeclaredFields(h) |-> { v \in BodyValues : InvalidAlone(h, f, v) }]]

InvalidFields(h, body) ==
    { f \in DeclaredFields(h) :
        IF body[f] \in BodyValues THEN body[f] \in InvalidValues[h][f]
        ELSE InvalidAlone(h, f, body[f]) }

\* The table a handler writes, before and after the request.
TableOf(h, d) ==
    CASE h \in {"ProjectPOST", "ProjectPATCH", "ProjectDELETE"} -> d.projects
      [] h \in {"CertificationPOST", "CertificationPATCH", "CertificationDELETE"}
           -> d.certifications
      [] h = "AboutPUT" -> d.about
      [] h \in {"ContactSubmit", "MessagePATCH", "MessageDELETE"} -> d.messages

\* The row the request names (the one about record, for PUT /api/admin/about),
\* before and after.
TargetBefore ==
    IF op.handler = "AboutPUT" THEN op.before.about
    ELSE WhereId(TableOf(op.handler, op.before), op.id)
TargetAfter ==
    IF op.handler = "AboutPUT" THEN db.about
    ELSE WhereId(TableOf(op.handler, db), op.id)

-----------------------------------------------------------------------------
(* C11 *)

\* C11: when the body of a validated write (create or update project, create
\* or update certification, update about, submit contact) has several invalid
\* fields at once, the response is 400 and its details list has an entry for
\* every invalid field, not only for the first one found.
C11_EveryInvalidFieldReported ==
    (Pending /\ op.handler \in ValidatedWrites
       /\ Cardinality(InvalidFields(op.handler, op.body)) >= 2)
    => /\ resp.status = 400
       /\ "details" \in resp.body.keys
       /\ \A f \in InvalidFields(op.handler, op.body) :
            \E issue \in op.details : issue.path[1] = f

\* A project update with a bad slug, an empty English title and a bad live
\* URL reports the three of them.
C11_Witness ==
    /\ Ran("ProjectPATCH")
    /\ InvalidFields(op.handler, op.body) = {"slug", "title", "liveUrl"}
    /\ resp.status = 400
    /\ { issue.path[1] : issue \in op.details } = {"slug", "title", "liveUrl"}

-----------------------------------------------------------------------------
(* C12 *)

\* C12: PATCH /api/admin/projects/{id} with githubUrl (likewise imageUrl,
\* liveUrl) set to the empty string, on an existing project and with nothing
\* else wrong in the body, passes validation and leaves the stored field
\* equal to null whatever was stored before; the empty string is never
\* stored.
C12_EmptyUrlStoredAsNull ==
    /\ \A f \in UrlFields :
         (Ran("ProjectPATCH") /\ op.body[f] = EmptyString /\ TargetBefore # {}
            /\ InvalidFields(op.handler, op.body) = {})
         => /\ resp.status = 200
            /\ \A row \in TargetAfter : row[f] = Null
    /\ \A row \in db.projects : \A f \in UrlFields : row[f] # EmptyString

-----------------------------------------------------------------------------
(* C13 *)

\* C13: PUT /api/admin/about on an existing record treats each optional field
\* (shortBio, location, email) in three distinct ways: an explicit null in
\* the body sets the stored field to NULL, a field absent from the body
\* leaves the stored value unchanged, and a value replaces the stored value.
C13_AboutThreeStateUpdate ==
    (Ran("AboutPUT") /\ op.before.about # {} /\ resp.status = 200)
    => \A old \in op.before.about : \A new \in db.about :
         \A f \in {"shortBio", "location", "email"} :
           new[f] = IF op.body[f] = Null THEN Null
                    ELSE IF op.body[f] = Undefined THEN old[f]
                    ELSE op.body[f]

-----------------------------------------------------------------------------
(* C14 *)

\* Messages that tell the caller what a slug may look like.
MessagesDescribingSlugPattern ==
    { "Slug must be lowercase alphanumeric with hyphens" }

\* C14: a project create or update whose slug is not made of lowercase
\* letters and digits in groups separated by single hyphens is answered 400
\* with a details entry whose path names the slug field and whose message
\* describes the allowed pattern, and no project is created or changed.
C14_BadSlugExplained ==
    (Pending /\ op.handler \in {"ProjectPOST", "ProjectPATCH"}
       /\ op.body["slug"].t = "string" /\ ~MatchesSlugPattern(op.body["slug"].v))
    => /\ resp.status = 400
       /\ \E issue \in op.details :
            /\ issue.path = <<"slug">>
            /\ issue.message \in MessagesDescribingSlugPattern
       /\ db = op.before

-----------------------------------------------------------------------------
(* C15 *)

PublicReads ==
    { "ProjectsList", "ProjectDetail", "CertificationsList", "CertificationDetail" }

\* The published rows of the table a public detail request reads that the
\* [id] segment names.
PublishedTargets ==
    IF op.handler = "ProjectDetail"
    THEN { row \in db.projects :
             /\ row["published"] = JsTrue
             /\ (row["id"] = Str(<<op.id>>) \/ SubSeq(req.path, 6, Len(req.path)) = row["slug"].v) }
    ELSE { row \in db.certifications :
             row["published"] = JsTrue /\ row["id"] = Str(<<op.id>>) }

\* C15: after any sequence of admin creates, updates (publish and unpublish
\* included) and deletes, every project or certification a public list or
\* detail endpoint returns has published = true at the time of the read, and
\* a public detail request for an item that is missing or unpublished is
\* answered 404.
C15_PublicReadsOnlyPublished ==
    (Pending /\ op.handler \in PublicReads)
    => /\ \A row \in op.rows : row["published"] = JsTrue
       /\ (op.handler \in {"ProjectDetail", "CertificationDetail"}
             /\ PublishedTargets = {})
          => resp.status = 404

-----------------------------------------------------------------------------
(* C16 *)

PasswordHashes == { account.password : account \in Accounts }

\* The strings a row holds.
StringsOf(row) == UNION { { row[c].v[i] : i \in 1..Len(row[c].v) } : c \in DOMAIN row }

\* C16: no response of any endpoint, for any request and any stored data,
\* contains an account's password hash: the claims of every token and every
\* response body are built only from id, email and role or from tables other
\* than the accounts table.
C16_PasswordHashNeverLeaves ==
    /\ \A token \in issued \cup {cookie, req.token} :
         {token.userId, token.email, token.role} \cap PasswordHashes = {}
    /\ resp.body.error \notin PasswordHashes
    /\ "password" \notin resp.body.keys
    /\ \A row \in op.rows : StringsOf(row) \cap PasswordHashes = {}
    /\ \A issue \in op.details : issue.message \notin PasswordHashes

\* An administrator's token carries the account's email, and an admin read
\* of a stored row is answered with that row.
C16_Witness ==
    /\ Pending
    /\ req.token.email = "admin@alecam.dev"
    /\ req.token \in issued
    /\ resp.status = 200
    /\ op.rows # {}

-----------------------------------------------------------------------------
(* C17 *)

IdWrites ==
    { "ProjectPATCH", "ProjectDELETE", "CertificationPATCH", "CertificationDELETE",
      "MessagePATCH", "MessageDELETE" }

\* The slug the body asks for belongs to another project.
SlugTaken ==
    /\ op.body["slug"].t = "string"
    /\ \E row \in op.before.projects :
         row["slug"] = op.body["slug"] /\ row["id"] # Str(<<op.id>>)

\* The handler refuses the body before it looks for the row.
BodyRefused ==
    CASE op.handler = "ProjectPATCH"
           -> InvalidFields(op.handler, op.body) # {} \/ SlugTaken
      [] op.handler = "CertificationPATCH" -> InvalidFields(op.handler, op.body) # {}
      [] op.handler = "MessagePATCH" -> op.body["status"] \notin MessageStatuses
      [] OTHER -> FALSE

\* C17 as stated: an admin PATCH or DELETE on a project, certification or
\* contact message whose id does not exist is answered 404 (not 500), and
\* the stored data is unchanged.
C17_MissingIdIs404 ==
    (Pending /\ op.handler \in IdWrites /\ TargetBefore = {})
    => resp.status = 404 /\ db = op.before

\* C17 amended: an admin DELETE, or an admin PATCH whose body the handler
\* accepts, on a project, certification or contact message whose id does not
\* exist is answered 404; a PATCH whose body fails validation (or asks for a
\* slug another project has) is answered 400 before the row is looked up.  In
\* no case is the answer 500, and the stored data is unchanged.
C17_MissingIdIs404UnlessBodyRefused ==
    (Pending /\ op.handler \in IdWrites /\ TargetBefore = {})
    => /\ resp.status = IF BodyRefused THEN 400 ELSE 404
       /\ resp.status # 500
       /\ db = op.before

\* A valid update addressed to an id no project has, while another project
\* exists.
C17_Witness ==
    /\ Ran("ProjectPATCH")
    /\ TargetBefore = {}
    /\ op.before.projects # {}
    /\ ~BodyRefused
    /\ Written(op.data, "published")
    /\ resp.status = 404
    /\ resp.body = Failure("Project not found")

-----------------------------------------------------------------------------
(* C18 *)

\* The gate's decision on request r is a denial: 401, 403 or a redirect.
GateDenies(r) ==
    LET mw == GateOf(r, clock)
    IN  mw.decision = "respond" /\ mw.status \in {401, 403, 307}

\* C18: a request denied by the gate (401, 403 or redirect) is terminal: no
\* handler runs for it and it makes no database call, so the stored projects,
\* certifications, about record and contact messages are the same after it
\* as before.
C18_DenialIsTerminal ==
    (Pending /\ GateDenies(req))
    => /\ resp.by = "middleware"
       /\ op.handler = ""
       /\ op.dbCalls = 0
       /\ db = op.before

\* A PUT on the about record with a valid token of the wrong role, while a
\* record is stored.
C18_Witness ==
    /\ Pending
    /\ req.path = PathAdminAbout
    /\ req.method = "PUT"
    /\ req.token.role = "USER"
    /\ resp.status = 403
    /\ db.about # {}
    /\ db = op.before

-----------------------------------------------------------------------------
(* C19 *)

AdminWrites ==
    { "ProjectPOST", "ProjectPATCH", "CertificationPOST", "CertificationPATCH",
      "AboutPUT", "MessagePATCH" }

GeneratedIds == ProjectIds \cup CertificationIds \cup MessageIds \cup AboutIds

AllRows(d) == d.projects \cup d.certifications \cup d.about \cup d.messages

\* C19: for every admin write, a field of the request body that the
\* endpoint's schema does not declare never reaches the persistence call: the
\* data written contains only declared fields, no write changes a row's id or
\* createdAt, and every stored row keeps the id and date the database gave it.
C19_OnlyDeclaredFieldsWritten ==
    /\ (Pending /\ op.handler \in AdminWrites)
       => /\ \A f \in DOMAIN op.data :
               Written(op.data, f) => f \in DeclaredFields(op.handler)
          /\ \A old \in TargetBefore : \A new \in TargetAfter :
               \A c \in UndeclaredFields : new[c] = old[c]
    /\ \A row \in AllRows(db) :
         row["id"].v[1] \in GeneratedIds /\ row["createdAt"] = CreatedAtNow

\* An accepted project update whose body carries another id and date.
C19_Witness ==
    /\ Ran("ProjectPATCH")
    /\ op.body["id"] = Str(<<"forged-id">>)
    /\ op.body["createdAt"] = Str(<<"1999-01-01">>)
    /\ Written(op.data, "published")
    /\ resp.status = 200
    /\ TargetAfter # {}

-----------------------------------------------------------------------------
(* C20 *)

\* C20: when JWT_SECRET is absent in production the system does not start
\* serving requests: no request is answered and no token is ever signed or
\* accepted with the built-in default secret.
C20_NoDefaultSecretInProduction ==
    (nodeEnv = "production" /\ jwtSecretEnv = NoValue)
    => /\ ~Pending
       /\ \A token \in issued : token.key # "fallback-secret-key"

-----------------------------------------------------------------------------
(* C21 *)

\* The page and limit the query string asks for are acceptable: absent, or
\* written as an integer with page >= 1 and 1 <= limit <= 100.
RECURSIVE AllDigits(_)
AllDigits(chars) == chars = <<>> \/ (IsDigit(Head(chars)) /\ AllDigits(Tail(chars)))

IsInteger(v) ==
    /\ v.v # <<>>
    /\ AllDigits(IF Head(v.v) = "-" THEN Tail(v.v) ELSE v.v)
    /\ v.v # <<"-">>

AcceptablePage(v) == v = Null \/ (IsInteger(v) /\ parseInt(v.v).n >= 1)
AcceptableLimit(v) ==
    v = Null \/ (IsInteger(v) /\ parseInt(v.v).n >= 1 /\ parseInt(v.v).n <= 100)

\* C21: the page and limit query parameters of the admin list endpoints are
\* validated before the database is queried: a request with page < 1,
\* limit < 1, limit > 100 or a non-numeric value never reaches the persistence
\* call with a negative skip or a non-positive take, and is answered with a
\* client error rather than 500.
C21_PaginationValidated ==
    (Pending /\ op.handler \in AdminLists
       /\ ~(AcceptablePage(op.body["page"]) /\ AcceptableLimit(op.body["limit"])))
    => /\ resp.status \in 400..499
       /\ op.dbCalls > 0
          => LET args == ListArguments(op.handler, op.body)
             IN  /\ ~args.skip.nan /\ args.skip.n >= 0
                 /\ ~args.take.nan /\ args.take.n > 0

-----------------------------------------------------------------------------
(* C22 *)

\* The path lies in the /api tree outside the /api/admin subtree.
ApiOutsideAdminTree(path) ==
    /\ StartsWith(path, PathApiSlash)
    /\ path # PathApiAdmin
    /\ ~StartsWith(path, PathApiAdmin \o <<"/">>)

GateDenialStatuses == {401, 403, 307}

\* C22 as stated: a request to a public route (any /api path not under
\* /api/admin, including POST /api/contact) is let through by the gate
\* whatever its cookie: it is never answered 401, 403 or a redirect.
C22_PublicPathsNeverDenied ==
    (Pending /\ ApiOutsideAdminTree(req.path))
    => resp.status \notin GateDenialStatuses

\* C22 amended: a request whose path is in the /api tree and does not begin
\* with the string /api/admin is let through by the gate whatever its cookie:
\* the gate reads no credential for it, hands every method but OPTIONS on to
\* the route, and the answer is never 401, 403 or a redirect.  A path that
\* begins with the string /api/admin without being under it (/api/adminx) is
\* gated like an admin path.
C22_PublicPrefixNeverDenied ==
    (Pending /\ StartsWith(req.path, PathApiSlash)
       /\ ~StartsWith(req.path, PathApiAdmin))
    => /\ resp.status \notin GateDenialStatuses
       /\ resp.authSteps = "none"
       /\ req.method # "OPTIONS" => resp.gate = "next" /\ resp.by # "middleware"

\* A contact form posted with a cookie whose token no longer verifies.
C22_Witness ==
    /\ Pending
    /\ req.path = PathContact
    /\ req.method = "POST"
    /\ req.token.kind = "jwt"
    /\ jwtVerify(req.token, clock) # "OK"
    /\ resp.status = 201

-----------------------------------------------------------------------------
(* C23 *)

ProjectMutations == { "ProjectPOST", "ProjectPATCH", "ProjectDELETE" }
CertificationMutations ==
    { "CertificationPOST", "CertificationPATCH", "CertificationDELETE" }

Succeeded == resp.status \in {200, 201}

\* C23: every successful admin create, update or delete of a project is
\* followed, before its response is returned, by an invalidation of the
\* /api/projects cache, and every successful create, update or delete of a
\* certification by an invalidation of the /api/certifications cache.
C23_MutationInvalidatesCache ==
    /\ (Pending /\ op.handler \in ProjectMutations /\ Succeeded)
       => PathProjects \in op.invalidated
    /\ (Pending /\ op.handler \in CertificationMutations /\ Succeeded)
       => PathCertifications \in op.invalidated

-----------------------------------------------------------------------------
(* C24 *)

\* C24: a failure of cache invalidation never breaks a mutation: when the
\* database write of an admin create, update or delete has succeeded and the
\* invalidation call throws, the response is still the success response (201
\* or 200), never 500.
C24_CacheFailureDoesNotBreakMutation ==
    (Pending /\ op.handler \in ProjectMutations \cup CertificationMutations
       /\ op.cacheError /\ db # op.before)
    => Succeeded

-----------------------------------------------------------------------------
(* C25 *)

PartialUpdates == { "ProjectPATCH", "CertificationPATCH" }

\* C25: PATCH on a project or certification is a partial update: every field
\* absent from the request body keeps its stored value (no schema default,
\* such as published = true, is written for an absent field), and only the
\* fields present in the body change.
C25_AbsentFieldsKeepStoredValue ==
    (Pending /\ op.handler \in PartialUpdates)
    => /\ \A old \in TargetBefore : \A new \in TargetAfter :
            \A c \in DOMAIN old : op.body[c] = Undefined => new[c] = old[c]
       /\ \A c \in DOMAIN op.data : op.body[c] = Undefined => ~Written(op.data, c)
       /\ resp.status = 200 => TargetBefore # {} /\ TargetAfter # {}

\* An unpublished project gets a GitHub URL by an update that does not
\* mention published: the URL changes and the project stays unpublished.
C25_Witness ==
    /\ Ran("ProjectPATCH")
    /\ resp.status = 200
    /\ op.body["published"] = Undefined
    /\ op.body["githubUrl"] = GoodUrl
    /\ \E old \in TargetBefore : \E new \in TargetAfter :
         /\ old["published"] = JsFalse /\ new["published"] = JsFalse
         /\ old["githubUrl"] = Null /\ new["githubUrl"] = GoodUrl

-----------------------------------------------------------------------------
(* C26: concurrent project writes and the slug *)

\* No two stored projects share a slug.
SlugsAreUnique ==
    \A p \in db.projects, q \in db.projects : p["slug"] = q["slug"] => p = q

\* Every project create or update that answered while its slug was held by
\* another row.
SlugConflicts ==
    { slot \in Slots : inflight[slot].pc = "done" /\ inflight[slot].conflict }

\* C26: under any interleaving of admin project creates and updates no two
\* stored projects share a slug, and every create or update whose slug is
\* already taken is answered 400 'A project with this slug already exists',
\* never 500, also when two requests with the same new slug both pass the
\* existence check before either writes.
C26_SlugConflictIs400 ==
    /\ SlugsAreUnique
    /\ \A slot \in SlugConflicts :
         /\ inflight[slot].status = 400
         /\ inflight[slot].error = SlugRefusal

-----------------------------------------------------------------------------
(* C27: the about record is a singleton *)

\* C27: every reachable state holds at most one about record, also when two
\* PUT /api/admin/about requests run side by side while no record exists.
C27_AboutIsSingleton == Cardinality(db.about) <= 1

-----------------------------------------------------------------------------
(* C28: the gate and the handlers' own check *)

\* The instants the two checks are compared at: issue time, just before and
\* at the expiry of a token issued at 0, and after it.
CheckTimes ==
    { 0, 500, ExpiresInSeconds * 1000 - 500, ExpiresInSeconds * 1000,
      ExpiresInSeconds * 1000 + 500 }

\* The gate lets the request at hand through exactly when isAdmin() holds for
\* the cookie it carries, at the same instant, whatever the instant.
GateAgreesWithIsAdmin ==
    req # NoRequest /\ StartsWith(req.path, PathApiAdmin) /\ req.method # "OPTIONS"
        => \A now \in CheckTimes \cup {clock} :
             ~GateStops(GateOf(req, now)) <=> isAdmin(req, now)

\* The handlers that rely on one of the two checks only.
GuardedOnce == { "AboutPUT", "UploadPOST" }

\* C28: for every token and every time a request under /api/admin that is
\* not a preflight passes the middleware exactly when isAdmin() is true for
\* the same cookie; no handler behind the gate answers its own 401
\* 'Unauthorized'; and the about and upload handlers run only for a request
\* whose cookie is a valid ADMIN token.
C28_GateAgreesWithHandlerCheck ==
    /\ GateAgreesWithIsAdmin
    /\ resp.by = "handler" /\ StartsWith(req.path, PathApiAdmin)
         => /\ resp.status # 401
            /\ resp.body.error # "Unauthorized"
    /\ op.handler \in GuardedOnce
         => /\ VerifyOutcome(req.token, clock) = "OK"
            /\ req.token.role = "ADMIN"

\* The about handler, which has no check of its own, and the upload handler
\* have both been reached, the last one by a request that passed the gate
\* while another token of the same session store is refused by both checks.
C28_Witness ==
    /\ op.handler \in GuardedOnce
    /\ resp.by = "handler"
    /\ resp.status = 200
    /\ isAdmin(req, clock)
    /\ \E token \in TokensToSend :
         LET r == StoreRequest(req.path, req.method, token)
         IN  GateStops(GateOf(r, clock)) /\ ~isAdmin(r, clock)

-----------------------------------------------------------------------------
(* C29: credentials and the allowed origin *)

\* Every origin one of the allow lists of the source names.
AnyAllowList == MiddlewareAllowedOrigins \cup PRODUCTION_ORIGINS \cup DEVELOPMENT_ORIGINS

\* C29: every response that carries Access-Control-Allow-Credentials: true
\* also carries Access-Control-Allow-Origin with exactly one allow-listed
\* origin; credentials are never allowed on a response that names no origin.
C29_CredentialsOnlyWithOrigin ==
    <<ACAC, <<"true">>>> \in resp.headers
        => \E origin \in AnyAllowList : <<ACAO, <<origin>>>> \in resp.headers

-----------------------------------------------------------------------------
(* C30: the status of a contact message *)

\* The message the last request addressed, as stored before and after it.
MessageBefore == WhereId(op.before.messages, op.id)
MessageAfter == WhereId(db.messages, op.id)

\* C30: every stored contact message has status UNREAD, READ or ARCHIVED.  A
\* message created by POST /api/contact starts UNREAD whatever its body
\* carries; PATCH /api/admin/contact/{id} with one of the three values sets
\* the status of an existing message to it, from whatever it was, and
\* changes nothing else; a PATCH with any other status is answered 400 and
\* leaves every message as it was.
C30_MessageStatusIsOneOfThree ==
    /\ \A row \in db.messages : row["status"] \in MessageStatus
    /\ op.handler = "ContactSubmit"
         => \A row \in db.messages \ op.before.messages :
              row["status"] = Str(<<"UNREAD">>)
    /\ op.handler = "MessagePATCH"
         => IF op.body["status"] \in MessageStatus
            THEN \A old \in MessageBefore :
                   /\ resp.status = 200
                   /\ db.messages = (op.before.messages \ {old})
                                    \cup {[old EXCEPT !["status"] = op.body["status"]]}
            ELSE /\ resp.status = 400
                 /\ db = op.before

\* An archived message was set back to UNREAD.
C30_Witness ==
    /\ op.handler = "MessagePATCH"
    /\ resp.status = 200
    /\ \E old \in MessageBefore : old["status"] = Str(<<"ARCHIVED">>)
    /\ \E row \in MessageAfter : row["status"] = Str(<<"UNREAD">>)

====
